---- MODULE Spec2Model ----
(***************************************************************************)
(* AetherScan, Map page (app/Map/page.tsx): the synthetic facility dataset *)
(* generator, the filter/sort pipeline, the aggregate statistics and the   *)
(* page state that drives them.                                            *)
(*                                                                         *)
(* Strings are sequences of UTF-16 code units (83 = "S", 32 = " ", ...),   *)
(* so that toLowerCase, includes, split, padStart and localeCompare are    *)
(* computed on characters.  Math.random() is a numerator k in              *)
(* 0..RandDenom-1 standing for the outcome k/RandDenom of [0,1).           *)
(***************************************************************************)
EXTENDS Integers, Sequences, FiniteSets, TLC

VARIABLES
  \* generateFactories (module load)
  i,                  \* loop counter of generateFactories
  factories,          \* the local array generateFactories builds
  genPc,              \* "loop" | "returned"
  \* module scope and AirPollutionMonitor state
  FACTORIES,          \* const FACTORIES = generateFactories()
  selectedMap, selectedFactory, searchTerm, selectedState, selectedIndustry,
  aqiRange, viewMode, sortBy, pollutantFilter, isClient,
  filteredFactories,  \* useMemo value
  stats,              \* useMemo value
  download,           \* what the last exportData click handed to the browser
  \* the filter/sort/summarize pipeline applied as a function to an input
  dataset, criteria, view, summary, viewAgain, phase,
  \* one iteration of the generator's loop as a function of its outcomes
  outcomes,           \* the outcomes of the iteration's Math.random() calls
  record,             \* the record the iteration pushes
  \* withRetry(fn, maxAttempts, delay)
  maxAttempts, delay, \* the arguments
  attempt,            \* the loop variable
  retryPc,            \* "call" | "wait" | "resolved" | "rejected"
  fnLog,              \* what each invocation of fn settled with, in order
  lastError,          \* let lastError
  waits,              \* the delays handed to setTimeout, in order
  settled,            \* what the promise of withRetry settled with
  \* debounce(func, delay), the delay being debounceDelay; the clock, the
  \* timeouts and the two logs also serve throttle(func, limit)
  debounceDelay,
  now,                \* the clock, in timer ticks
  timers,             \* the pending timeouts: id, due time and arguments
  timeoutId,          \* let timeoutId
  nextTimerId,        \* the id setTimeout returns next
  callLog,            \* the calls of the returned function: time and args
  funcLog,            \* the invocations of func: time and args
  \* throttle(func, limit)
  limit,
  inThrottle,         \* let inThrottle
  \* LeafletMap, mounted by the page in the map and heatmap views
  scriptsLoaded,      \* page state: the Leaflet script has loaded
  map,                \* map.current: the tile style of the instance or "none"
  markers,            \* markers.current: the ids that have a marker
  mapLayers,          \* the ids whose marker is a layer of map.current
  initialized,        \* component state of LeafletMap
  flyTimers,          \* the pending 800 ms timeouts of the mounted LeafletMap
  flyCount,           \* the calls of flyTo to Dehradun so far
  \* getWebVitals()
  webClient,          \* isClient(): typeof window !== 'undefined'
  vitals,             \* const vitals, the object handed to resolve
  completedMetrics,   \* let completedMetrics
  lcpObserver,        \* "none" | "observing" | "disconnected"
  fidObserver,        \* "none" | "observing" | "disconnected"
  clsObserver,        \* "none" | "observing" | "disconnected"
  clsScore,           \* let clsScore
  clsTimer,           \* the 5000 ms timeout is pending
  fallbackTimer,      \* the 10000 ms timeout is pending
  promise,            \* <<>> while pending, else the vitals at resolution
  vitalsPc,           \* "new" | "running" | "server"
  \* useMotionPreferences
  mqSupported,        \* detectMediaQuerySupport()
  mqModern,           \* 'addEventListener' in mediaQuery
  mqMatches,          \* mediaQuery.matches
  prefers,            \* preferences.prefersReducedMotion
  handlerGen,         \* which handlePreferenceChange useCallback returns
  motionPc,           \* "unmounted" | "mounted" | "gone"
  listeners,          \* the change listeners attached to the media query
  effectRuns,         \* the runs of the effect so far
  lastDeps,           \* the dependencies of the effect's last run
  closure,            \* what the last run's cleanup closes over
  \* useMousePosition
  mouseConfig,        \* the options: normalize, smoothing, bounds
  mouseState,         \* stateRef.current: x, y, targetX, targetY, isActive
  sinceUpdate,        \* performance.now() - state.lastUpdate, up to throttle
  smoothingRaf,       \* smoothingRafRef.current is a pending frame
  mousePosition,      \* the position the hook returns
  reported,           \* setMousePosition was called after a pointer event
  frames              \* the animation frames run so far

genVars  == <<i, factories, genPc>>
pageVars == <<FACTORIES, selectedMap, selectedFactory, searchTerm, selectedState,
              selectedIndustry, aqiRange, viewMode, sortBy, pollutantFilter,
              isClient, filteredFactories, stats, download>>
pipeVars == <<dataset, criteria, view, summary, viewAgain, phase>>
recVars  == <<outcomes, record>>
retryVars == <<maxAttempts, delay, attempt, retryPc, fnLog, lastError, waits,
               settled>>
debounceVars == <<debounceDelay, now, timers, timeoutId, nextTimerId, callLog,
                  funcLog>>
throttleVars == <<limit, inThrottle>>
leafletVars == <<scriptsLoaded, map, markers, mapLayers, initialized,
                 flyTimers, flyCount>>
vitalsVars == <<webClient, vitals, completedMetrics, lcpObserver, fidObserver,
                clsObserver, clsScore, clsTimer, fallbackTimer, promise,
                vitalsPc>>
motionVars == <<mqSupported, mqModern, mqMatches, prefers, handlerGen,
                motionPc, listeners, effectRuns, lastDeps, closure>>
mouseVars == <<mouseConfig, mouseState, sinceUpdate, smoothingRaf,
               mousePosition, reported, frames>>
moreVars == <<throttleVars, leafletVars, vitalsVars, motionVars, mouseVars>>
utilVars == <<recVars, retryVars, debounceVars, moreVars>>
vars     == <<genVars, pageVars, pipeVars, utilVars>>

----------------------------------------------------------------------------
(* Bounds *)

\* the number of records generated; the source loops to 300 (page.tsx:146)
NumFactories == 3

\* the size of the dataset the page is opened on
PageFactories == 2

\* resolution of the random source: Math.random() = k / RandDenom
RandDenom == 1000

----------------------------------------------------------------------------
(* JavaScript string operations *)

toLowerCase(s) ==
  [k \in 1..Len(s) |-> IF s[k] \in 65..90 THEN s[k] + 32 ELSE s[k]]

includes(s, t) ==
  \E k \in 0..(Len(s) - Len(t)) : SubSeq(s, k + 1, k + Len(t)) = t

\* s.split(' ')[0]: the characters before the first space
RECURSIVE splitFirst(_)
splitFirst(s) ==
  IF s = <<>> \/ Head(s) = 32 THEN <<>>
  ELSE <<Head(s)>> \o splitFirst(Tail(s))

\* String(n) for a non-negative integer: its decimal digits
RECURSIVE String(_)
String(n) ==
  IF n < 10 THEN <<48 + n>>
  ELSE String(n \div 10) \o <<48 + (n % 10)>>

RECURSIVE padStart(_, _, _)
padStart(s, targetLength, fill) ==
  IF Len(s) >= targetLength THEN s
  ELSE padStart(<<fill>> \o s, targetLength, fill)

\* -1, 0 or 1: lexicographic order of two sequences of weights
RECURSIVE LexCompare(_, _)
LexCompare(a, b) ==
  IF a = <<>> /\ b = <<>> THEN 0
  ELSE IF a = <<>> THEN -1
  ELSE IF b = <<>> THEN 1
  ELSE IF Head(a) < Head(b) THEN -1
  ELSE IF Head(a) > Head(b) THEN 1
  ELSE LexCompare(Tail(a), Tail(b))

\* the collation weight of a character: space, then digits, then letters
\* with upper and lower case alike
PrimaryWeight(c) ==
  IF c = 32 THEN 1
  ELSE IF c \in 48..57 THEN c - 46
  ELSE IF c \in 65..90 THEN c - 53
  ELSE IF c \in 97..122 THEN c - 85
  ELSE 100 + c

\* case decides only between strings with the same primary weights:
\* lower case first
TertiaryWeight(c) == IF c \in 65..90 THEN 1 ELSE 0

\* a.localeCompare(b) on letters, digits and spaces
localeCompare(a, b) ==
  LET p == LexCompare([k \in 1..Len(a) |-> PrimaryWeight(a[k])],
                      [k \in 1..Len(b) |-> PrimaryWeight(b[k])])
  IN IF p # 0 THEN p
     ELSE LexCompare([k \in 1..Len(a) |-> TertiaryWeight(a[k])],
                     [k \in 1..Len(b) |-> TertiaryWeight(b[k])])

----------------------------------------------------------------------------
(* generateFactories *)

states ==
  << <<85, 116, 116, 97, 114, 97, 107, 104, 97, 110, 100>>,            \* Uttarakhand
     <<85, 116, 116, 97, 114, 32, 80, 114, 97, 100, 101, 115, 104>>,   \* Uttar Pradesh
     <<77, 97, 104, 97, 114, 97, 115, 104, 116, 114, 97>>,             \* Maharashtra
     <<71, 117, 106, 97, 114, 97, 116>>,                               \* Gujarat
     <<87, 101, 115, 116, 32, 66, 101, 110, 103, 97, 108>>,            \* West Bengal
     <<75, 97, 114, 110, 97, 116, 97, 107, 97>>,                       \* Karnataka
     <<84, 97, 109, 105, 108, 32, 78, 97, 100, 117>>,                  \* Tamil Nadu
     <<82, 97, 106, 97, 115, 116, 104, 97, 110>>,                      \* Rajasthan
     <<80, 117, 110, 106, 97, 98>>,                                    \* Punjab
     <<72, 97, 114, 121, 97, 110, 97>> >>                              \* Haryana

industryTypes ==
  << <<83, 116, 101, 101, 108, 32, 77, 97, 110, 117, 102, 97, 99, 116, 117, 114, 105, 110, 103>>,          \* Steel Manufacturing
     <<67, 101, 109, 101, 110, 116, 32, 80, 114, 111, 100, 117, 99, 116, 105, 111, 110>>,                  \* Cement Production
     <<67, 104, 101, 109, 105, 99, 97, 108, 32, 80, 114, 111, 99, 101, 115, 115, 105, 110, 103>>,          \* Chemical Processing
     <<84, 104, 101, 114, 109, 97, 108, 32, 80, 111, 119, 101, 114>>,                                      \* Thermal Power
     <<79, 105, 108, 32, 82, 101, 102, 105, 110, 101, 114, 121>>,                                          \* Oil Refinery
     <<80, 104, 97, 114, 109, 97, 99, 101, 117, 116, 105, 99, 97, 108>>,                                   \* Pharmaceutical
     <<84, 101, 120, 116, 105, 108, 101, 32, 68, 121, 101, 105, 110, 103>>,                                \* Textile Dyeing
     <<70, 101, 114, 116, 105, 108, 105, 122, 101, 114, 32, 80, 108, 97, 110, 116>>,                       \* Fertilizer Plant
     <<80, 108, 97, 115, 116, 105, 99, 32, 77, 97, 110, 117, 102, 97, 99, 116, 117, 114, 105, 110, 103>>,  \* Plastic Manufacturing
     <<80, 97, 112, 101, 114, 32, 77, 105, 108, 108>>,                                                     \* Paper Mill
     <<71, 108, 97, 115, 115, 32, 77, 97, 110, 117, 102, 97, 99, 116, 117, 114, 105, 110, 103>>,           \* Glass Manufacturing
     <<65, 108, 117, 109, 105, 110, 117, 109, 32, 83, 109, 101, 108, 116, 105, 110, 103>>,                 \* Aluminum Smelting
     <<66, 97, 116, 116, 101, 114, 121, 32, 80, 114, 111, 100, 117, 99, 116, 105, 111, 110>>,              \* Battery Production
     <<80, 97, 105, 110, 116, 32, 77, 97, 110, 117, 102, 97, 99, 116, 117, 114, 105, 110, 103>>,           \* Paint Manufacturing
     <<66, 114, 105, 99, 107, 32, 75, 105, 108, 110>> >>                                                   \* Brick Kiln

controlMeasures ==
  << <<69, 108, 101, 99, 116, 114, 111, 115, 116, 97, 116, 105, 99, 32, 80, 114, 101, 99, 105, 112, 105, 116, 97, 116, 111, 114, 115>>,   \* Electrostatic Precipitators
     <<66, 97, 103, 32, 70, 105, 108, 116, 101, 114, 115>>,   \* Bag Filters
     <<83, 99, 114, 117, 98, 98, 101, 114, 115>>,   \* Scrubbers
     <<67, 97, 116, 97, 108, 121, 116, 105, 99, 32, 67, 111, 110, 118, 101, 114, 116, 101, 114, 115>>,   \* Catalytic Converters
     <<67, 121, 99, 108, 111, 110, 101, 32, 83, 101, 112, 97, 114, 97, 116, 111, 114, 115>>,   \* Cyclone Separators
     <<67, 97, 114, 98, 111, 110, 32, 65, 100, 115, 111, 114, 112, 116, 105, 111, 110>>,   \* Carbon Adsorption
     <<83, 116, 97, 99, 107, 32, 72, 101, 105, 103, 104, 116, 32, 79, 112, 116, 105, 109, 105, 122, 97, 116, 105, 111, 110>>,   \* Stack Height Optimization
     <<67, 111, 110, 116, 105, 110, 117, 111, 117, 115, 32, 69, 109, 105, 115, 115, 105, 111, 110, 32, 77, 111, 110, 105, 116, 111, 114, 105, 110, 103>> >>   \* Continuous Emission Monitoring

\* " Facility "
FacilityInfix == <<32, 70, 97, 99, 105, 108, 105, 116, 121, 32>>

\* Math.ceil(Math.random() * n + base)
RandomIntCeil(k, n, base) == (k * n + RandDenom - 1) \div RandDenom + base

\* Math.floor(Math.random() * n), the offset left out
RandomIntNoBase(k, n, base) == (k * n) \div RandDenom

\* Math.floor(Math.random() * n + base) for the outcome k / RandDenom
RandomInt(k, n, base) == (k * n) \div RandDenom + base

\* parseFloat(((Math.random() - 0.5) * n + base).toFixed(digits)): noise
\* around the offset
RandomFixedSigned(k, n, base, scale) ==
  ((2 * k - RandDenom) * n * scale + RandDenom) \div (2 * RandDenom)
    + base * scale

\* parseFloat((Math.random() * n).toFixed(digits)), the offset left out
RandomFixedNoBase(k, n, base, scale) ==
  (2 * k * n * scale + RandDenom) \div (2 * RandDenom)

\* parseFloat((Math.random() * n + base).toFixed(d)) in units of 10^-d:
\* scale = 10^d, the result is the nearest multiple of 10^-d
RandomFixed(k, n, base, scale) ==
  (2 * k * n * scale + RandDenom) \div (2 * RandDenom) + base * scale

\* Math.floor(baseAQI * 0.4 + Math.random() * 50)
PM25(baseAQI, k) == (baseAQI * 4 * RandDenom + k * 500) \div (10 * RandDenom)

\* Math.floor(pm25 * 0.8 + Math.random() * 30)
PM10Low(pm25, k) == (pm25 * 8 * RandDenom + k * 300) \div (10 * RandDenom)

\* Math.floor(pm25 * 1.8 + Math.random() * 30)
PM10(pm25, k) == (pm25 * 18 * RandDenom + k * 300) \div (10 * RandDenom)

\* arr.slice(0, end)
slice0(arr, end) ==
  [k \in 1..(IF end < Len(arr) THEN end ELSE Len(arr)) |-> arr[k]]

\* controlMeasures.slice(0, Math.floor(Math.random() * 5))
ControlMeasuresOfNoMin(k) == slice0(controlMeasures, RandomInt(k, 5, 0))

\* controlMeasures.slice(0, Math.floor(Math.random() * 5) + 2)
ControlMeasuresOf(k) == slice0(controlMeasures, RandomInt(k, 5, 0) + 2)

\* the record pushed for loop index idx when the Math.random() calls of the
\* iteration return the outcomes in r (one numerator per call).  co is in
\* hundredths; voc, the particle composition and healthImpactRadius are in
\* tenths; the other numbers are integers.
Factory(idx, r) ==
  LET state    == states[RandomInt(r.state, Len(states), 0) + 1]
      industry == industryTypes[RandomInt(r.industry, Len(industryTypes), 0) + 1]
      baseAQI  == RandomInt(r.aqi, 450, 0) + 50
      pm25     == PM25(baseAQI, r.pm25)
      pm10     == PM10(pm25, r.pm10)
  IN [ id                 |-> idx,
       name               |-> splitFirst(industry) \o FacilityInfix
                                \o padStart(String(idx), 3, 48),
       state              |-> state,
       industryType       |-> industry,
       pollution          |-> [ pm25 |-> pm25,
                                pm10 |-> pm10,
                                co   |-> RandomFixed(r.co, 15, 2, 100),
                                co2  |-> RandomInt(r.co2, 800, 400),
                                nox  |-> RandomInt(r.nox, 150, 30),
                                so2  |-> RandomInt(r.so2, 200, 40),
                                o3   |-> RandomInt(r.o3, 120, 20),
                                voc  |-> RandomFixed(r.voc, 500, 100, 10),
                                aqi  |-> baseAQI ],
       particleComposition |->
         [ organicCarbon |-> RandomFixed(r.organicCarbon, 30, 10, 10),
           blackCarbon   |-> RandomFixed(r.blackCarbon, 20, 5, 10),
           sulfates      |-> RandomFixed(r.sulfates, 25, 8, 10),
           nitrates      |-> RandomFixed(r.nitrates, 20, 6, 10),
           metals        |-> RandomFixed(r.metals, 10, 2, 10),
           dust          |-> RandomFixed(r.dust, 30, 15, 10) ],
       emissionSources    |-> [ stacks    |-> RandomInt(r.stacks, 50, 20),
                                vehicles  |-> RandomInt(r.vehicles, 30, 10),
                                processes |-> RandomInt(r.processes, 40, 15),
                                fugitive  |-> RandomInt(r.fugitive, 25, 5) ],
       complianceScore    |-> RandomInt(r.complianceScore, 100, 0),
       violations         |-> RandomInt(r.violations, 15, 0),
       healthImpactRadius |-> RandomFixed(r.healthImpactRadius, 8, 2, 10),
       populationAffected |-> RandomInt(r.populationAffected, 100000, 10000),
       controlMeasures    |-> ControlMeasuresOf(r.controlMeasures),
       seasonalVariation  |-> [ winter  |-> RandomInt(r.winter, 40, 80),
                                summer  |-> RandomInt(r.summer, 30, 60),
                                monsoon |-> RandomInt(r.monsoon, 25, 50) ] ]

\* the Math.random() calls of one iteration that the record keeps
OutcomeNames ==
  { "state", "industry", "aqi", "pm25", "pm10", "co", "co2", "nox", "so2",
    "o3", "voc", "organicCarbon", "blackCarbon", "sulfates", "nitrates",
    "metals", "dust", "stacks", "vehicles", "processes", "fugitive",
    "complianceScore", "violations", "healthImpactRadius",
    "populationAffected", "controlMeasures", "winter", "summer", "monsoon" }

\* one iteration's outcomes of Math.random(), the noise calls sharing n
Outcomes(s, ind, a, n, c, p) ==
  [ name \in OutcomeNames |->
      CASE name = "state" -> s
        [] name = "industry" -> ind
        [] name = "aqi" -> a
        [] name \in {"complianceScore", "violations"} -> c
        [] name = "populationAffected" -> p
        [] OTHER -> n ]

\* the outcomes the generator is run on:
\*   Steel in Uttarakhand, AQI 300;  Cement in Gujarat, AQI 301;
\*   Steel in Uttar Pradesh, AQI 300 (an AQI tie);  Paint in Gujarat, AQI 120
RandomOutcomes ==
  { Outcomes(0,   0,   556, 0,   500, 0),
    Outcomes(300, 100, 558, 999, 200, 500),
    Outcomes(100, 0,   556, 500, 900, 0),
    Outcomes(300, 900, 156, 300, 200, 999) }

\* the array generateFactories returns when iteration k draws rs[k]
generateFactories(rs) == [k \in 1..Len(rs) |-> Factory(k, rs[k])]

RECURSIVE SeqsOfLen(_, _)
SeqsOfLen(S, n) ==
  IF n = 0 THEN { <<>> }
  ELSE { Append(s, x) : s \in SeqsOfLen(S, n - 1), x \in S }

----------------------------------------------------------------------------
(* JavaScript numbers: every number the page computes is >= 0, so two      *)
(* values below zero stand for the results of a division by zero.          *)

NaN      == 0 - 1       \* 0 / 0
Infinity == 0 - 2       \* x / 0, x > 0

RECURSIVE Sum(_)
Sum(ns) == IF ns = <<>> THEN 0 ELSE Head(ns) + Sum(Tail(ns))

\* a / b truncated instead of rounded
RoundDivTruncating(a, b) ==
  IF b = 0 THEN (IF a = 0 THEN NaN ELSE Infinity)
  ELSE a \div b

\* Math.round(a / b) for a, b >= 0: the nearest integer, halves upwards
RoundDiv(a, b) ==
  IF b = 0 THEN (IF a = 0 THEN NaN ELSE Infinity)
  ELSE (2 * a + b) \div (2 * b)

----------------------------------------------------------------------------
(* filteredFactories: the filter and the sort *)

null == [id |-> 0]

All == <<65, 108, 108>>          \* "All"

DefaultCriteria ==
  [ searchTerm |-> <<>>, selectedState |-> All, selectedIndustry |-> All,
    aqiRange |-> <<0, 500>>, sortBy |-> "aqi", pollutantFilter |-> "all" ]

\* matchesSearch comparing the search text as typed
matchesSearchCaseSensitive(f, term) ==
  \/ term = <<>>
  \/ includes(toLowerCase(f.name), term)
  \/ includes(toLowerCase(f.state), term)
  \/ includes(toLowerCase(f.industryType), term)

matchesSearch(f, term) ==
  \/ term = <<>>
  \/ includes(toLowerCase(f.name), toLowerCase(term))
  \/ includes(toLowerCase(f.state), toLowerCase(term))
  \/ includes(toLowerCase(f.industryType), toLowerCase(term))

matchesState(f, sel) == sel = All \/ f.state = sel

matchesIndustry(f, sel) == sel = All \/ f.industryType = sel

\* matchesAQI with the upper end excluded
matchesAQIExclusiveMax(f, range) ==
  f.pollution.aqi >= range[1] /\ f.pollution.aqi < range[2]

\* matchesAQI without the lower end
matchesAQIIgnoresMin(f, range) ==
  f.pollution.aqi <= range[2]

matchesAQI(f, range) ==
  f.pollution.aqi >= range[1] /\ f.pollution.aqi <= range[2]

matchesPollutant(f, pollutant) ==
  IF pollutant # "all" THEN f.pollution[pollutant] > 0 ELSE TRUE

\* compare with the AQI key ascending
compareAscending(a, b, key) ==
  IF key = "aqi" THEN a.pollution.aqi - b.pollution.aqi
  ELSE IF key = "name" THEN localeCompare(a.name, b.name)
  ELSE IF key = "compliance" THEN b.complianceScore - a.complianceScore
  ELSE IF key = "population" THEN b.populationAffected - a.populationAffected
  ELSE 0

\* the comparator handed to filtered.sort
compare(a, b, key) ==
  IF key = "aqi" THEN b.pollution.aqi - a.pollution.aqi
  ELSE IF key = "name" THEN localeCompare(a.name, b.name)
  ELSE IF key = "compliance" THEN b.complianceScore - a.complianceScore
  ELSE IF key = "population" THEN b.populationAffected - a.populationAffected
  ELSE 0

\* an insertion that puts x in front of the elements it ties with
RECURSIVE InsertSortedUnstable(_, _, _)
InsertSortedUnstable(sorted, x, key) ==
  IF sorted = <<>> THEN <<x>>
  ELSE LET last == sorted[Len(sorted)]
       IN IF (IF key = "aqi" THEN x.pollution.aqi - last.pollution.aqi
              ELSE IF key = "name" THEN localeCompare(last.name, x.name)
              ELSE IF key = "compliance"
                THEN x.complianceScore - last.complianceScore
              ELSE IF key = "population"
                THEN x.populationAffected - last.populationAffected
              ELSE 0) < 0
          THEN Append(sorted, x)
          ELSE Append(InsertSortedUnstable(SubSeq(sorted, 1, Len(sorted) - 1),
                                           x, key), last)

\* Array.prototype.sort is stable: x goes behind every element that does
\* not compare greater than it
RECURSIVE InsertSorted(_, _, _)
InsertSorted(sorted, x, key) ==
  IF sorted = <<>> THEN <<x>>
  ELSE LET last == sorted[Len(sorted)]
       IN IF compare(last, x, key) <= 0 THEN Append(sorted, x)
          ELSE Append(InsertSorted(SubSeq(sorted, 1, Len(sorted) - 1), x, key),
                      last)

RECURSIVE ArraySort(_, _)
ArraySort(arr, key) ==
  IF arr = <<>> THEN <<>>
  ELSE InsertSorted(ArraySort(SubSeq(arr, 1, Len(arr) - 1), key),
                    arr[Len(arr)], key)

\* the useMemo body sorting `data` itself before it filters
filteredFactoriesMemoInPlace(data, c) ==
  LET sorted == ArraySort(data, c.sortBy)
  IN [ value    |-> SelectSeq(sorted, LAMBDA f :
                      /\ matchesSearch(f, c.searchTerm)
                      /\ matchesState(f, c.selectedState)
                      /\ matchesIndustry(f, c.selectedIndustry)
                      /\ matchesAQI(f, c.aqiRange)
                      /\ matchesPollutant(f, c.pollutantFilter)),
       receiver |-> sorted ]

\* the useMemo body over the array `data` (FACTORIES on the page): value is
\* what it returns, receiver is `data` as the body leaves it.  filter
\* builds a new array and sort works on that array.
filteredFactoriesMemo(data, c) ==
  LET filtered ==
        SelectSeq(data, LAMBDA f :
          /\ matchesSearch(f, c.searchTerm)
          /\ matchesState(f, c.selectedState)
          /\ matchesIndustry(f, c.selectedIndustry)
          /\ matchesAQI(f, c.aqiRange)
          /\ matchesPollutant(f, c.pollutantFilter))
  IN [ value |-> ArraySort(filtered, c.sortBy), receiver |-> data ]

----------------------------------------------------------------------------
(* stats and the dashboard's State-wise Distribution *)

NoStats == [avgAQI |-> 0, criticalCount |-> 0, totalPopulation |-> 0,
            avgCompliance |-> 0, avgPM25 |-> 0, totalViolations |-> 0]

\* the values the callbacks of reduce read from the records
aqiOf(arr) == [k \in 1..Len(arr) |-> arr[k].pollution.aqi]

populationOf(arr) == [k \in 1..Len(arr) |-> arr[k].populationAffected]

complianceOf(arr) == [k \in 1..Len(arr) |-> arr[k].complianceScore]

pm25Of(arr) == [k \in 1..Len(arr) |-> arr[k].pollution.pm25]

violationsOf(arr) == [k \in 1..Len(arr) |-> arr[k].violations]

\* summarize dividing whatever the length is
summarizeUnguarded(filtered) ==
  LET length == Len(filtered)
  IN [ avgAQI          |-> RoundDiv(Sum(aqiOf(filtered)), length),
       criticalCount   |-> Len(SelectSeq(filtered,
                                         LAMBDA f : f.pollution.aqi > 300)),
       totalPopulation |-> Sum(populationOf(filtered)),
       avgCompliance   |-> RoundDiv(Sum(complianceOf(filtered)), length),
       avgPM25         |-> RoundDiv(Sum(pm25Of(filtered)), length),
       totalViolations |-> Sum(violationsOf(filtered)) ]

\* the stats body behind the isClient guard
summarize(filtered) ==
  LET length == Len(filtered)
  IN [ avgAQI          |-> IF length > 0
                           THEN RoundDiv(Sum(aqiOf(filtered)), length)
                           ELSE 0,
       criticalCount   |-> Len(SelectSeq(filtered,
                                         LAMBDA f : f.pollution.aqi > 300)),
       totalPopulation |-> Sum(populationOf(filtered)),
       avgCompliance   |-> IF length > 0
                           THEN RoundDiv(Sum(complianceOf(filtered)), length)
                           ELSE 0,
       avgPM25         |-> IF length > 0
                           THEN RoundDiv(Sum(pm25Of(filtered)), length)
                           ELSE 0,
       totalViolations |-> Sum(violationsOf(filtered)) ]

statsMemo(filtered, client) ==
  IF ~client THEN NoStats ELSE summarize(filtered)

\* the options of the state select and the rows of the distribution panel
stateOptions(data) == { data[k].state : k \in 1..Len(data) }

\* one row of State-wise Distribution
stateRow(filtered, state) ==
  LET ofState == SelectSeq(filtered, LAMBDA f : f.state = state)
      count   == Len(ofState)
  IN [ count  |-> count,
       avgAqi |-> RoundDiv(Sum(aqiOf(ofState)), count) ]

----------------------------------------------------------------------------
(* Values the other specifications leave untouched *)

RecIdle == outcomes = <<>> /\ record = null
RetryIdle ==
  /\ maxAttempts = 0 /\ delay = 0 /\ attempt = 0 /\ retryPc = "idle"
  /\ fnLog = <<>> /\ lastError = <<>> /\ waits = <<>> /\ settled = <<>>
DebounceIdle ==
  /\ debounceDelay = 0 /\ now = 0 /\ timers = {} /\ timeoutId = 0
  /\ nextTimerId = 1 /\ callLog = <<>> /\ funcLog = <<>>
ThrottleIdle == limit = 0 /\ inThrottle = FALSE
LeafletIdle ==
  /\ scriptsLoaded = FALSE /\ map = "none" /\ markers = {} /\ mapLayers = {}
  /\ initialized = FALSE /\ flyTimers = 0 /\ flyCount = 0
VitalsIdle ==
  /\ webClient = FALSE /\ vitals = <<>> /\ completedMetrics = 0
  /\ lcpObserver = "none" /\ fidObserver = "none" /\ clsObserver = "none"
  /\ clsScore = 0 /\ clsTimer = FALSE /\ fallbackTimer = FALSE
  /\ promise = <<>> /\ vitalsPc = "idle"
MotionIdle ==
  /\ mqSupported = FALSE /\ mqModern = FALSE /\ mqMatches = FALSE
  /\ prefers = FALSE /\ handlerGen = 0 /\ motionPc = "idle"
  /\ listeners = {} /\ effectRuns = 0 /\ lastDeps = <<>> /\ closure = <<>>
MouseIdle ==
  /\ mouseConfig = <<>> /\ mouseState = <<>> /\ sinceUpdate = 0
  /\ smoothingRaf = FALSE /\ mousePosition = <<>> /\ reported = FALSE
  /\ frames = 0
MoreIdle ==
  ThrottleIdle /\ LeafletIdle /\ VitalsIdle /\ MotionIdle /\ MouseIdle
UtilIdle == RecIdle /\ RetryIdle /\ DebounceIdle /\ MoreIdle

GenIdle  == i = 1 /\ factories = <<>> /\ genPc = "returned"
PageIdle ==
  /\ FACTORIES = <<>> /\ selectedMap = "dark" /\ selectedFactory = null
  /\ searchTerm = <<>> /\ selectedState = All /\ selectedIndustry = All
  /\ aqiRange = <<0, 500>> /\ viewMode = "map" /\ sortBy = "aqi"
  /\ pollutantFilter = "all" /\ isClient = FALSE
  /\ filteredFactories = <<>> /\ stats = NoStats /\ download = <<>>
PipeIdle ==
  /\ dataset = <<>> /\ criteria = DefaultCriteria /\ view = <<>>
  /\ summary = NoStats
  /\ viewAgain = <<>> /\ phase = "idle"

----------------------------------------------------------------------------
(* SpecGen: generateFactories run at module load *)

InitGen ==
  /\ i = 1 /\ factories = <<>> /\ genPc = "loop"
  /\ PageIdle /\ PipeIdle /\ UtilIdle

\* the loop numbering the records from 0
GenPushZeroBased ==
  /\ genPc = "loop" /\ i <= NumFactories
  /\ \E r \in RandomOutcomes :
       factories' = Append(factories, Factory(i - 1, r))
  /\ i' = i + 1
  /\ UNCHANGED <<genPc, pageVars, pipeVars, utilVars>>

\* for (let i = 1; i <= 300; i++) { ...; factories.push({ id: i, ... }) }
GenPush ==
  /\ genPc = "loop" /\ i <= NumFactories
  /\ \E r \in RandomOutcomes : factories' = Append(factories, Factory(i, r))
  /\ i' = i + 1
  /\ UNCHANGED <<genPc, pageVars, pipeVars, utilVars>>

\* return factories;  const FACTORIES = generateFactories()
GenReturn ==
  /\ genPc = "loop" /\ ~(i <= NumFactories)
  /\ genPc' = "returned"
  /\ FACTORIES' = factories
  /\ UNCHANGED <<i, factories, selectedMap, selectedFactory, searchTerm,
                 selectedState, selectedIndustry, aqiRange, viewMode, sortBy,
                 pollutantFilter, isClient, filteredFactories, stats, download,
                 pipeVars, utilVars>>

NextGen == GenPush \/ GenReturn

SpecGen == InitGen /\ [][NextGen]_vars

----------------------------------------------------------------------------
(* SpecPipeline: the filter/sort pipeline and the summary as functions of  *)
(* a dataset and a criteria                                                *)

\* "STEEL" (in names and industry types), "GUJARAT" (in states),
\* "Production" (in industry types only), "y 002" (in one name), "zz"
SearchTerms ==
  { <<>>,
    <<83, 84, 69, 69, 76>>,
    <<71, 85, 74, 65, 82, 65, 84>>,
    <<80, 114, 111, 100, 117, 99, 116, 105, 111, 110>>,
    <<121, 32, 48, 48, 50>>,
    <<122, 122>> }

StateChoices == { All, states[1], states[4] }

IndustryChoices == { All, industryTypes[1], industryTypes[2] }

AqiRanges == { <<0, 500>>, <<120, 300>>, <<100, 400>>, <<500, 500>> }

SortKeys == { "aqi", "name", "compliance", "population" }

PollutantChoices ==
  { "all", "pm25", "pm10", "co", "co2", "nox", "so2", "o3", "voc" }

AllCriteria ==
  [ searchTerm : SearchTerms, selectedState : StateChoices,
    selectedIndustry : IndustryChoices, aqiRange : AqiRanges,
    sortBy : SortKeys, pollutantFilter : PollutantChoices ]

\* the number of criteria that differ from the page's initial ones
Distance(c) ==
  Cardinality({ k \in DOMAIN c : c[k] # DefaultCriteria[k] })

\* the criteria the pipeline is run on: up to two away from the defaults
CriteriaSet == { c \in AllCriteria : Distance(c) <= 2 }

\* the AQI values of the five-record example
ExampleAQI == <<450, 120, 310, 75, 500>>

ExampleDataset ==
  [ k \in 1..Len(ExampleAQI) |->
      [ Factory(k, Outcomes(0, 0, 0, 0, 500, 0))
          EXCEPT !.pollution.aqi = ExampleAQI[k] ] ]

Datasets ==
  UNION { { generateFactories(rs) : rs \in SeqsOfLen(RandomOutcomes, n) }
          : n \in 0..NumFactories }
  \cup { ExampleDataset }

InitPipeline ==
  /\ dataset \in Datasets
  /\ criteria \in CriteriaSet
  /\ view = <<>> /\ summary = NoStats /\ viewAgain = <<>>
  /\ phase = "input"
  /\ GenIdle /\ PageIdle /\ UtilIdle

\* view = apply(dataset, criteria)
Apply ==
  /\ phase = "input"
  /\ view' = filteredFactoriesMemo(dataset, criteria).value
  /\ dataset' = filteredFactoriesMemo(dataset, criteria).receiver
  /\ phase' = "applied"
  /\ UNCHANGED <<criteria, summary, viewAgain, genVars, pageVars, utilVars>>

\* summary = summarize(view)
Summarize ==
  /\ phase = "applied"
  /\ summary' = summarize(view)
  /\ phase' = "summarized"
  /\ UNCHANGED <<dataset, criteria, view, viewAgain, genVars, pageVars, utilVars>>

\* viewAgain = apply(view, criteria)
Reapply ==
  /\ phase = "summarized"
  /\ viewAgain' = filteredFactoriesMemo(view, criteria).value
  /\ view' = filteredFactoriesMemo(view, criteria).receiver
  /\ phase' = "reapplied"
  /\ UNCHANGED <<dataset, criteria, summary, genVars, pageVars, utilVars>>

NextPipeline == Apply \/ Summarize \/ Reapply

SpecPipeline == InitPipeline /\ [][NextPipeline]_vars

----------------------------------------------------------------------------
(* Spec: the Map page (AirPollutionMonitor) over a generated dataset *)

\* the outcomes behind the page's dataset: Steel in Uttarakhand with
\* AQI 300, Cement in Gujarat with AQI 301
PageOutcomes ==
  { Outcomes(0, 0, 556, 0, 500, 0), Outcomes(300, 100, 558, 999, 200, 500) }

\* the texts typed into the search box: "" and "STEEL"
PageSearchTerms == { <<>>, <<83, 84, 69, 69, 76>> }

\* the positions the AQI slider is moved to
SliderValues == { 300, 500 }

\* the sort keys and pollutants picked in the selects
PageSortKeys == { "aqi", "name" }

PagePollutants == { "all", "co" }

MapStyles == { "dark", "satellite" }

ViewModes == { "map", "list", "dashboard", "heatmap" }

currentCriteria ==
  [ searchTerm |-> searchTerm, selectedState |-> selectedState,
    selectedIndustry |-> selectedIndustry, aqiRange |-> aqiRange,
    sortBy |-> sortBy, pollutantFilter |-> pollutantFilter ]

industryOptions(data) == { data[k].industryType : k \in 1..Len(data) }

(* JSON.  A JavaScript value is a number m / 10^d (in lowest terms of the
   power of ten), a string, an array or an object with its members in
   property order.  A JSON text is the sequence of its tokens: the
   punctuation, the string literals as written (quoted and escaped) and the
   number literals as written; the white space of the indentation, which
   JSON.parse skips, is left out.  A member name is kept in k. *)

RECURSIVE Normalize(_, _)
Normalize(m, d) ==
  IF d > 0 /\ m % 10 = 0 THEN Normalize(m \div 10, d - 1)
  ELSE [m |-> m, d |-> d]

\* the number whose value is x / 10^digits
Num(x, digits) ==
  [ type |-> "number", m |-> Normalize(x, digits).m,
    d |-> Normalize(x, digits).d, s |-> <<>>, items |-> <<>> ]

Str(chars) ==
  [ type |-> "string", m |-> 0, d |-> 0, s |-> chars, items |-> <<>> ]

Arr(elements) ==
  [ type |-> "array", m |-> 0, d |-> 0, s |-> <<>>, items |-> elements ]

\* members: a sequence of [key, value]
Obj(members) ==
  [ type |-> "object", m |-> 0, d |-> 0, s |-> <<>>, items |-> members ]

SyntaxError ==
  [ type |-> "SyntaxError", m |-> 0, d |-> 0, s |-> <<>>, items |-> <<>> ]

RECURSIVE Pow10(_)
Pow10(d) == IF d = 0 THEN 1 ELSE 10 * Pow10(d - 1)

\* Number.prototype.toString for a non-negative decimal m / 10^d
NumberToString(m, d) ==
  IF d = 0 THEN String(m)
  ELSE String(m \div Pow10(d)) \o <<46>>
         \o padStart(String(m % Pow10(d)), d, 48)

\* QuoteJSONString: the quotation mark and the reverse solidus are escaped
RECURSIVE escape(_)
escape(chars) ==
  IF chars = <<>> THEN <<>>
  ELSE (IF Head(chars) \in {34, 92} THEN <<92, Head(chars)>>
        ELSE <<Head(chars)>>) \o escape(Tail(chars))

quote(chars) == <<34>> \o escape(chars) \o <<34>>

Punct(p)     == [ t |-> p, k |-> "", v |-> <<>> ]
NameToken(k) == [ t |-> "string", k |-> k, v |-> <<>> ]
StringToken(chars) == [ t |-> "string", k |-> "", v |-> quote(chars) ]
NumberToken(m, d)  == [ t |-> "number", k |-> "", v |-> NumberToString(m, d) ]

\* SerializeJSONProperty / SerializeJSONArray / SerializeJSONObject
RECURSIVE Serialize(_)
RECURSIVE SerializeElements(_, _)
RECURSIVE SerializeMembers(_, _)
Serialize(value) ==
  CASE value.type = "number" -> << NumberToken(value.m, value.d) >>
    [] value.type = "string" -> << StringToken(value.s) >>
    [] value.type = "array" ->
         << Punct("[") >> \o SerializeElements(value.items, 1)
           \o << Punct("]") >>
    [] value.type = "object" ->
         << Punct("{") >> \o SerializeMembers(value.items, 1)
           \o << Punct("}") >>

SerializeElements(items, n) ==
  IF n > Len(items) THEN <<>>
  ELSE (IF n > 1 THEN << Punct(",") >> ELSE <<>>)
         \o Serialize(items[n]) \o SerializeElements(items, n + 1)

SerializeMembers(items, n) ==
  IF n > Len(items) THEN <<>>
  ELSE (IF n > 1 THEN << Punct(",") >> ELSE <<>>)
         \o << NameToken(items[n].key), Punct(":") >>
         \o Serialize(items[n].value) \o SerializeMembers(items, n + 1)

\* the digits of a decimal literal read as an integer
RECURSIVE ParseDigits(_, _)
ParseDigits(chars, acc) ==
  IF chars = <<>> THEN acc
  ELSE ParseDigits(Tail(chars), 10 * acc + (Head(chars) - 48))

\* the position of the decimal point in a number literal, 0 if none
PointAt(chars) ==
  IF \E n \in 1..Len(chars) : chars[n] = 46
  THEN CHOOSE n \in 1..Len(chars) : chars[n] = 46
  ELSE 0

IsNumberLiteral(chars) ==
  /\ chars # <<>>
  /\ \A n \in 1..Len(chars) : chars[n] \in 48..57 \/ chars[n] = 46
  /\ Cardinality({ n \in 1..Len(chars) : chars[n] = 46 }) <= 1
  /\ PointAt(chars) \notin {1, Len(chars)}
  /\ (Len(chars) > 1 /\ chars[1] = 48) => chars[2] = 46

\* the value of a number literal
ParseNumber(chars) ==
  LET point == PointAt(chars) IN
  IF point = 0 THEN Num(ParseDigits(chars, 0), 0)
  ELSE Num(ParseDigits(SubSeq(chars, 1, point - 1)
                         \o SubSeq(chars, point + 1, Len(chars)), 0),
           Len(chars) - point)

\* the characters of a string literal's body with the escapes undone
RECURSIVE unescape(_)
unescape(chars) ==
  IF chars = <<>> THEN <<>>
  ELSE IF Head(chars) = 92
       THEN <<chars[2]>> \o unescape(Tail(Tail(chars)))
       ELSE <<Head(chars)>> \o unescape(Tail(chars))

\* is body a string literal's body: no bare quotation mark, every reverse
\* solidus followed by a quotation mark or a reverse solidus
RECURSIVE IsStringBody(_)
IsStringBody(chars) ==
  IF chars = <<>> THEN TRUE
  ELSE IF Head(chars) = 34 THEN FALSE
  ELSE IF Head(chars) = 92
       THEN Len(chars) >= 2 /\ chars[2] \in {34, 92}
              /\ IsStringBody(Tail(Tail(chars)))
       ELSE IsStringBody(Tail(chars))

IsStringLiteral(chars) ==
  /\ Len(chars) >= 2 /\ chars[1] = 34 /\ chars[Len(chars)] = 34
  /\ IsStringBody(SubSeq(chars, 2, Len(chars) - 1))

EndOfText == Punct("end")

TokenAt(text, n) == IF n \in 1..Len(text) THEN text[n] ELSE EndOfText

Failed == [ value |-> SyntaxError, next |-> 0 ]

\* JSON.parse: the value that starts at token n and the position after it
RECURSIVE ParseValue(_, _)
RECURSIVE ParseElements(_, _, _)
RECURSIVE ParseMembers(_, _, _)
ParseValue(text, n) ==
  LET token == TokenAt(text, n) IN
  CASE token.t = "number" ->
         IF IsNumberLiteral(token.v)
         THEN [ value |-> ParseNumber(token.v), next |-> n + 1 ]
         ELSE Failed
    [] token.t = "string" ->
         IF token.k = "" /\ IsStringLiteral(token.v)
         THEN [ value |-> Str(unescape(SubSeq(token.v, 2, Len(token.v) - 1))),
                next |-> n + 1 ]
         ELSE Failed
    [] token.t = "[" ->
         IF TokenAt(text, n + 1).t = "]"
         THEN [ value |-> Arr(<<>>), next |-> n + 2 ]
         ELSE ParseElements(text, n + 1, <<>>)
    [] token.t = "{" ->
         IF TokenAt(text, n + 1).t = "}"
         THEN [ value |-> Obj(<<>>), next |-> n + 2 ]
         ELSE ParseMembers(text, n + 1, <<>>)
    [] OTHER -> Failed

\* the elements of an array from token n on, acc holding those before it
ParseElements(text, n, acc) ==
  LET element == ParseValue(text, n) IN
  IF element.value = SyntaxError THEN Failed
  ELSE IF TokenAt(text, element.next).t = ","
  THEN ParseElements(text, element.next + 1, Append(acc, element.value))
  ELSE IF TokenAt(text, element.next).t = "]"
  THEN [ value |-> Arr(Append(acc, element.value)),
         next |-> element.next + 1 ]
  ELSE Failed

\* the members of an object from token n on, acc holding those before it
ParseMembers(text, n, acc) ==
  IF ~( TokenAt(text, n).t = "string" /\ TokenAt(text, n).k # ""
        /\ TokenAt(text, n + 1).t = ":" )
  THEN Failed
  ELSE
    LET member == ParseValue(text, n + 2)
        members == Append(acc, [ key |-> TokenAt(text, n).k,
                                 value |-> member.value ])
    IN IF member.value = SyntaxError THEN Failed
       ELSE IF TokenAt(text, member.next).t = ","
       THEN ParseMembers(text, member.next + 1, members)
       ELSE IF TokenAt(text, member.next).t = "}"
       THEN [ value |-> Obj(members), next |-> member.next + 1 ]
       ELSE Failed

JSONparse(text) ==
  LET parsed == ParseValue(text, 1) IN
  IF parsed.value # SyntaxError /\ parsed.next = Len(text) + 1
  THEN parsed.value ELSE SyntaxError

Member(k, value) == [ key |-> k, value |-> value ]

\* the object of numbers with the keys of rec, in the order keys, each
\* number being rec[key] / 10^digits[key]
NumberObject(rec, keys, digits) ==
  Obj([ n \in 1..Len(keys) |->
          Member(keys[n], Num(rec[keys[n]], digits[keys[n]])) ])

PollutionKeys ==
  << "pm25", "pm10", "co", "co2", "nox", "so2", "o3", "voc", "aqi" >>
PollutionDigits ==
  [ key \in { PollutionKeys[n] : n \in 1..Len(PollutionKeys) } |->
      IF key = "co" THEN 2 ELSE IF key = "voc" THEN 1 ELSE 0 ]
ParticleKeys ==
  << "organicCarbon", "blackCarbon", "sulfates", "nitrates", "metals",
     "dust" >>
EmissionKeys == << "stacks", "vehicles", "processes", "fugitive" >>
SeasonKeys == << "winter", "summer", "monsoon" >>

\* the JavaScript object that the record f stands for, its members in
\* property order
FactoryObject(f) ==
  Obj(<< Member("id", Num(f.id, 0)),
         Member("name", Str(f.name)),
         Member("state", Str(f.state)),
         Member("industryType", Str(f.industryType)),
         Member("pollution",
                NumberObject(f.pollution, PollutionKeys, PollutionDigits)),
         Member("particleComposition",
                NumberObject(f.particleComposition, ParticleKeys,
                             [ key \in DOMAIN f.particleComposition |-> 1 ])),
         Member("emissionSources",
                NumberObject(f.emissionSources, EmissionKeys,
                             [ key \in DOMAIN f.emissionSources |-> 0 ])),
         Member("complianceScore", Num(f.complianceScore, 0)),
         Member("violations", Num(f.violations, 0)),
         Member("healthImpactRadius", Num(f.healthImpactRadius, 1)),
         Member("populationAffected", Num(f.populationAffected, 0)),
         Member("controlMeasures",
                Arr([ n \in 1..Len(f.controlMeasures) |->
                        Str(f.controlMeasures[n]) ])),
         Member("seasonalVariation",
                NumberObject(f.seasonalVariation, SeasonKeys,
                             [ key \in DOMAIN f.seasonalVariation |-> 0 ])) >>)

\* the array of objects that the array of records arr stands for
FactoryArray(arr) == Arr([ n \in 1..Len(arr) |-> FactoryObject(arr[n]) ])

\* JSON.stringify(FACTORIES, null, 2): the whole dataset
JSONstringifyDataset(arr) == Serialize(FactoryArray(FACTORIES))

\* JSON.stringify(filteredFactories, null, 2)
JSONstringify(arr) == Serialize(FactoryArray(arr))

\* a render whose stats memo lacks filteredFactories in its dependencies
RenderStaleStats(c, client) ==
  LET memo == filteredFactoriesMemo(FACTORIES, c) IN
  /\ filteredFactories' =
       IF c # currentCriteria THEN memo.value ELSE filteredFactories
  /\ FACTORIES' = IF c # currentCriteria THEN memo.receiver ELSE FACTORIES
  /\ stats' =
       IF client # isClient
       THEN statsMemo(filteredFactories', client) ELSE stats

\* the render that follows a state update to the criteria c and the flag
\* client: each useMemo recomputes when one of its dependencies changed
Render(c, client) ==
  LET memo == filteredFactoriesMemo(FACTORIES, c) IN
  /\ filteredFactories' =
       IF c # currentCriteria THEN memo.value ELSE filteredFactories
  /\ FACTORIES' = IF c # currentCriteria THEN memo.receiver ELSE FACTORIES
  /\ stats' =
       IF c # currentCriteria \/ client # isClient
       THEN statsMemo(filteredFactories', client) ELSE stats

\* a state update that changes criteria only
SetCriteria(c) ==
  /\ isClient
  /\ searchTerm' = c.searchTerm
  /\ selectedState' = c.selectedState
  /\ selectedIndustry' = c.selectedIndustry
  /\ aqiRange' = c.aqiRange
  /\ sortBy' = c.sortBy
  /\ pollutantFilter' = c.pollutantFilter
  /\ Render(c, isClient)
  /\ download' = <<>>
  /\ UNCHANGED <<selectedMap, selectedFactory, viewMode, isClient,
                 genVars, pipeVars, utilVars>>

\* a state update that leaves the criteria alone
KeepCriteria ==
  /\ Render(currentCriteria, isClient)
  /\ UNCHANGED <<searchTerm, selectedState, selectedIndustry, aqiRange,
                 sortBy, pollutantFilter, isClient, genVars, pipeVars, utilVars>>

Init ==
  /\ FACTORIES \in
       { generateFactories(rs) : rs \in SeqsOfLen(PageOutcomes, PageFactories) }
  /\ selectedMap = "dark" /\ selectedFactory = null
  /\ searchTerm = <<>> /\ selectedState = All /\ selectedIndustry = All
  /\ aqiRange = <<0, 500>> /\ viewMode = "map" /\ sortBy = "aqi"
  /\ pollutantFilter = "all" /\ isClient = FALSE
  /\ filteredFactories = filteredFactoriesMemo(FACTORIES, DefaultCriteria).value
  /\ stats = statsMemo(filteredFactories, FALSE)
  /\ download = <<>>
  /\ GenIdle /\ PipeIdle /\ UtilIdle

\* useEffect(() => { setIsClient(true); ... }, [])
Mount ==
  /\ ~isClient
  /\ isClient' = TRUE
  /\ Render(currentCriteria, TRUE)
  /\ download' = <<>>
  /\ UNCHANGED <<selectedMap, selectedFactory, searchTerm, selectedState,
                 selectedIndustry, aqiRange, viewMode, sortBy,
                 pollutantFilter, genVars, pipeVars, utilVars>>

\* onChange={(e) => setSearchTerm(e.target.value)}
SetSearchTerm ==
  \E t \in PageSearchTerms :
    SetCriteria([currentCriteria EXCEPT !.searchTerm = t])

\* onChange={(e) => setSelectedState(e.target.value)}
SetSelectedState ==
  \E s \in {All} \cup stateOptions(FACTORIES) :
    SetCriteria([currentCriteria EXCEPT !.selectedState = s])

\* onChange={(e) => setSelectedIndustry(e.target.value)}
SetSelectedIndustry ==
  \E t \in {All} \cup industryOptions(FACTORIES) :
    SetCriteria([currentCriteria EXCEPT !.selectedIndustry = t])

\* onChange={(e) => setPollutantFilter(e.target.value)}
SetPollutantFilter ==
  \E q \in PagePollutants :
    SetCriteria([currentCriteria EXCEPT !.pollutantFilter = q])

\* onChange={(e) => setAqiRange([aqiRange[0], parseInt(e.target.value)])}
SetAqiRange ==
  \E v \in SliderValues :
    SetCriteria([currentCriteria EXCEPT !.aqiRange = <<aqiRange[1], v>>])

\* onChange={(e) => setSortBy(e.target.value as any)}
SetSortBy ==
  \E k \in PageSortKeys :
    SetCriteria([currentCriteria EXCEPT !.sortBy = k])

\* the dashboard panel "Top 10 Most Polluted Facilities":
\* filteredFactories.slice(0, 10)
topPolluted(filtered) == slice0(filtered, 10)

\* Clear All Filters without its setSortBy('aqi')
ClearAllFiltersKeepsSort ==
  SetCriteria([ selectedState |-> All, selectedIndustry |-> All,
                pollutantFilter |-> "all", searchTerm |-> <<>>,
                aqiRange |-> <<0, 500>>, sortBy |-> sortBy ])

\* Clear All Filters
ClearAllFilters ==
  SetCriteria([ selectedState |-> All, selectedIndustry |-> All,
                pollutantFilter |-> "all", searchTerm |-> <<>>,
                aqiRange |-> <<0, 500>>, sortBy |-> "aqi" ])

\* exportData: the text written to the downloaded file
ExportData ==
  /\ isClient
  /\ download' = <<JSONstringify(filteredFactories)>>
  /\ KeepCriteria
  /\ UNCHANGED <<selectedMap, selectedFactory, viewMode>>

\* onClick={() => setSelectedMap(style)}
SetSelectedMap ==
  /\ isClient
  /\ \E style \in MapStyles : selectedMap' = style
  /\ download' = <<>>
  /\ KeepCriteria
  /\ UNCHANGED <<selectedFactory, viewMode>>

\* onClick={() => setViewMode(mode as any)}
SetViewMode ==
  /\ isClient
  /\ \E mode \in ViewModes : viewMode' = mode
  /\ download' = <<>>
  /\ KeepCriteria
  /\ UNCHANGED <<selectedMap, selectedFactory>>

\* a marker of the map is clicked: onMarkerClick(factory)
MarkerClick ==
  /\ isClient /\ viewMode \in {"map", "heatmap"}
  /\ \E k \in 1..Len(filteredFactories) :
       selectedFactory' = filteredFactories[k]
  /\ download' = <<>>
  /\ KeepCriteria
  /\ UNCHANGED <<selectedMap, viewMode>>

\* a row of the list is clicked: setSelectedFactory(factory); setViewMode('map')
ListRowClick ==
  /\ isClient /\ viewMode = "list"
  /\ \E k \in 1..Len(filteredFactories) :
       selectedFactory' = filteredFactories[k]
  /\ viewMode' = "map"
  /\ download' = <<>>
  /\ KeepCriteria
  /\ UNCHANGED selectedMap

\* the detail popup is closed: setSelectedFactory(null)
CloseDetail ==
  /\ isClient /\ selectedFactory # null
  /\ selectedFactory' = null
  /\ download' = <<>>
  /\ KeepCriteria
  /\ UNCHANGED <<selectedMap, viewMode>>

Next ==
  \/ Mount
  \/ SetSearchTerm
  \/ SetSelectedState
  \/ SetSelectedIndustry
  \/ SetPollutantFilter
  \/ SetAqiRange
  \/ SetSortBy
  \/ ClearAllFilters
  \/ ExportData
  \/ SetSelectedMap
  \/ SetViewMode
  \/ MarkerClick
  \/ ListRowClick
  \/ CloseDetail

Spec == Init /\ [][Next]_vars

----------------------------------------------------------------------------
(* Properties of the generator (SpecGen) *)

\* C1: the generator returns exactly N records whose ids are pairwise
\* distinct and are exactly 1..N, record k of the sequence carrying id k.
C1_GeneratedIds ==
  genPc = "returned" =>
    /\ Len(FACTORIES) = NumFactories
    /\ \A k \in 1..Len(FACTORIES) : FACTORIES[k].id = k
    /\ { FACTORIES[k].id : k \in 1..Len(FACTORIES) } = 1..NumFactories
    /\ \A j, k \in 1..Len(FACTORIES) :
         j # k => FACTORIES[j].id # FACTORIES[k].id

C1_Witness ==
  /\ genPc = "returned" /\ Len(FACTORIES) >= 2
  /\ FACTORIES[1].state # FACTORIES[2].state

----------------------------------------------------------------------------
(* Properties of the pipeline (SpecPipeline) *)

Applied == phase \in {"applied", "summarized", "reapplied"}

Summarized == phase \in {"summarized", "reapplied"}

Occurrences(seq, x) == Cardinality({ k \in 1..Len(seq) : seq[k] = x })

\* region, industry, AQI range and pollutant focus, as the filter is specified
SatisfiesSelections(f, c) ==
  /\ (c.selectedState = All \/ f.state = c.selectedState)
  /\ (c.selectedIndustry = All \/ f.industryType = c.selectedIndustry)
  /\ c.aqiRange[1] <= f.pollution.aqi
  /\ f.pollution.aqi <= c.aqiRange[2]
  /\ (c.pollutantFilter = "all" \/ f.pollution[c.pollutantFilter] > 0)

\* C2: the view holds each record of the dataset exactly once iff the record
\* satisfies all five predicates at once, and holds nothing else; with a
\* region selected every record of the view has that region.
C2_FilterIsConjunction ==
  Applied =>
    /\ \A k \in 1..Len(dataset) :
         Occurrences(view, dataset[k]) =
           IF /\ matchesSearch(dataset[k], criteria.searchTerm)
              /\ SatisfiesSelections(dataset[k], criteria)
           THEN 1 ELSE 0
    /\ \A k \in 1..Len(view) : \E j \in 1..Len(dataset) : dataset[j] = view[k]
    /\ criteria.selectedState # All =>
         \A k \in 1..Len(view) : view[k].state = criteria.selectedState

C2_Witness ==
  /\ phase = "applied"
  /\ criteria.aqiRange = <<120, 300>> /\ criteria.selectedState # All
  /\ Len(view) >= 1 /\ Len(view) < Len(dataset)
  /\ \E k \in 1..Len(view) : view[k].pollution.aqi = 300
  /\ \E k \in 1..Len(dataset) :
       /\ dataset[k].pollution.aqi = 300
       /\ dataset[k].state # criteria.selectedState

\* two characters that are equal up to the case of a letter
EqIgnoringCase(a, b) ==
  \/ a = b
  \/ a \in 65..90 /\ b = a + 32
  \/ b \in 65..90 /\ a = b + 32

\* t occurs in s at some offset, letter case ignored
OccursIgnoringCase(s, t) ==
  \E off \in 0..(Len(s) - Len(t)) :
    \A j \in 1..Len(t) : EqIgnoringCase(s[off + j], t[j])

\* C3: the text search accepts a record iff the search string, compared
\* case-insensitively, is a substring of its name, its state or its industry
\* type; the empty search string accepts every record.
C3_TextSearch ==
  Applied =>
    \A k \in 1..Len(dataset) :
      SatisfiesSelections(dataset[k], criteria) =>
        /\ (\E j \in 1..Len(view) : view[j] = dataset[k])
             <=> \/ OccursIgnoringCase(dataset[k].name, criteria.searchTerm)
                 \/ OccursIgnoringCase(dataset[k].state, criteria.searchTerm)
                 \/ OccursIgnoringCase(dataset[k].industryType,
                                       criteria.searchTerm)
        /\ criteria.searchTerm = <<>> =>
             \E j \in 1..Len(view) : view[j] = dataset[k]

C3_Witness ==
  /\ phase = "applied"
  /\ criteria.searchTerm = <<83, 84, 69, 69, 76>>
  /\ Len(view) >= 1 /\ Len(view) < Len(dataset)

\* C4: the view is ordered by the active sort key: AQI non-increasing,
\* name non-decreasing under string comparison, complianceScore
\* non-increasing, populationAffected non-increasing.
C4_SortedByKey ==
  Applied =>
    \A k \in 1..(Len(view) - 1) :
      /\ criteria.sortBy = "aqi" =>
           view[k].pollution.aqi >= view[k + 1].pollution.aqi
      /\ criteria.sortBy = "name" =>
           LexCompare(view[k].name, view[k + 1].name) <= 0
      /\ criteria.sortBy = "compliance" =>
           view[k].complianceScore >= view[k + 1].complianceScore
      /\ criteria.sortBy = "population" =>
           view[k].populationAffected >= view[k + 1].populationAffected

C4_Witness ==
  /\ phase = "applied" /\ criteria.sortBy = "aqi"
  /\ Len(view) >= 3
  /\ view[1].id > view[2].id
  /\ view[1].pollution.aqi > view[3].pollution.aqi

\* C5: applying the pipeline to its own result with the same criteria gives
\* the same records in the same order.
C5_Idempotent ==
  phase = "reapplied" => viewAgain = view

C5_Witness ==
  /\ phase = "reapplied" /\ criteria.sortBy = "aqi"
  /\ Len(view) >= 2 /\ Len(view) < Len(dataset)
  /\ view[1].pollution.aqi = view[2].pollution.aqi

\* C7: the summary of an empty view is all zero (and its count is 0); no
\* average is the result of a division by zero.
C7_EmptySummary ==
  (Summarized /\ view = <<>>) =>
    /\ Len(view) = 0
    /\ summary.avgAQI = 0 /\ summary.criticalCount = 0
    /\ summary.totalPopulation = 0 /\ summary.avgCompliance = 0
    /\ summary.avgPM25 = 0
    /\ \A k \in DOMAIN summary : summary[k] \notin {NaN, Infinity}

C7_Witness ==
  /\ phase = "summarized" /\ view = <<>> /\ Len(dataset) >= 2

\* q is total / n rounded to the nearest integer, halves upwards
IsRoundedMean(q, total, n) ==
  2 * q * n <= 2 * total + n /\ 2 * total + n < 2 * (q + 1) * n

\* C8: for a non-empty view the three averages are the sum of the field
\* over the view divided by the number of records, rounded to the nearest
\* integer (halves upwards); criticalCount counts the records with
\* AQI > 300 (AQI = 300 is not counted); totalPopulation is the sum of
\* populationAffected.
C8_Summary ==
  (Summarized /\ view # <<>>) =>
    LET n == Len(view) IN
    /\ IsRoundedMean(summary.avgAQI,
                     Sum([k \in 1..n |-> view[k].pollution.aqi]), n)
    /\ IsRoundedMean(summary.avgCompliance,
                     Sum([k \in 1..n |-> view[k].complianceScore]), n)
    /\ IsRoundedMean(summary.avgPM25,
                     Sum([k \in 1..n |-> view[k].pollution.pm25]), n)
    /\ summary.criticalCount =
         Cardinality({ k \in 1..n : view[k].pollution.aqi > 300 })
    /\ summary.criticalCount =
         n - Cardinality({ k \in 1..n : view[k].pollution.aqi <= 300 })
    /\ summary.totalPopulation =
         Sum([k \in 1..n |-> view[k].populationAffected])

C8_Witness ==
  /\ phase = "summarized" /\ Len(view) = 2
  /\ { view[1].pollution.aqi, view[2].pollution.aqi } = {300, 301}
  /\ summary.avgAQI = 301 /\ summary.criticalCount = 1

ExampleCriteria == [DefaultCriteria EXCEPT !.aqiRange = <<100, 400>>]

ExampleRun ==
  Summarized /\ dataset = ExampleDataset /\ criteria = ExampleCriteria

\* C10 as stated: on the example the AQI range [100,400] keeps the records
\* with AQI 120, 310 and 75, the view by 'aqi' is [310, 120, 75], and the
\* summary has avgAQI = 168 and criticalCount = 1.
C10_ExampleAsStated ==
  ExampleRun =>
    /\ [k \in 1..Len(view) |-> view[k].pollution.aqi] = <<310, 120, 75>>
    /\ summary.avgAQI = 168 /\ summary.criticalCount = 1

\* C10 amended: on the example the AQI range [100,400] keeps the two
\* records with AQI 120 and 310 (75 is below the range), the view by 'aqi'
\* is [310, 120], and the summary has avgAQI = 215 and criticalCount = 1.
C10_Example ==
  ExampleRun =>
    /\ [k \in 1..Len(view) |-> view[k].pollution.aqi] = <<310, 120>>
    /\ [k \in 1..Len(view) |-> view[k].id] = <<3, 2>>
    /\ summary.avgAQI = 215 /\ summary.criticalCount = 1

C10_Witness ==
  /\ phase = "summarized" /\ dataset = ExampleDataset
  /\ criteria = ExampleCriteria /\ Len(view) = 2

----------------------------------------------------------------------------
(* Properties of the page (Spec) *)

\* C6: no operation of the Map page changes FACTORIES: its records, their
\* field values and their order stay as generated; sorting acts on a copy.
C6_DatasetUnchanged == [][FACTORIES' = FACTORIES]_vars

C6_Witness ==
  /\ isClient /\ sortBy = "name" /\ selectedState = All
  /\ Len(filteredFactories) = Len(FACTORIES)
  /\ filteredFactories # FACTORIES
  /\ viewMode = "dashboard" /\ selectedMap = "satellite"
  /\ selectedFactory # null

\* C9: no value computed from the view for display (the stats cards, and
\* the dashboard's per-state facility count and per-state average AQI) is
\* the result of a division by zero.
C9_NoDivisionByZero ==
  /\ \A k \in DOMAIN stats : stats[k] \notin {NaN, Infinity}
  /\ viewMode = "dashboard" =>
       \A s \in stateOptions(FACTORIES) :
         /\ stateRow(filteredFactories, s).count \notin {NaN, Infinity}
         /\ stateRow(filteredFactories, s).avgAqi \notin {NaN, Infinity}

----------------------------------------------------------------------------
(* SpecRecord: one iteration of the generator's loop over its outcomes *)

\* every call of Math.random() returning e / RandDenom
AllOutcomes(e) == [ name \in OutcomeNames |-> e ]

\* the outcome vectors: one call ranges over [0, 1) while the other calls
\* sit together at the least or at the greatest outcome
SweptOutcomes ==
  { [ AllOutcomes(e) EXCEPT ![name] = k ] :
      name \in OutcomeNames, k \in 0..(RandDenom - 1),
      e \in {0, RandDenom - 1} }

InitRecord ==
  /\ outcomes \in SweptOutcomes
  /\ record = null
  /\ GenIdle /\ PageIdle /\ PipeIdle /\ RetryIdle /\ DebounceIdle
  /\ MoreIdle

\* factories.push({ id: i, ... }) for i = 1
GenerateRecord ==
  /\ record = null
  /\ record' = Factory(1, outcomes)
  /\ UNCHANGED <<outcomes, genVars, pageVars, pipeVars, retryVars,
                 debounceVars, moreVars>>

NextRecord == GenerateRecord

SpecRecord == InitRecord /\ [][NextRecord]_vars

Generated == record # null

----------------------------------------------------------------------------
(* SpecRetry: withRetry(fn, maxAttempts, delay) *)

\* the greatest maxAttempts tried
MaxAttempts == 3

\* the delays tried, in milliseconds
Delays == {0, 250, 1000}

\* what fn's promise can be fulfilled with
Values == {"v1", "v2"}

\* what fn's promise can be rejected with: an Error or any other value
Reasons ==
  { [isError |-> TRUE, message |-> "e1"],
    [isError |-> TRUE, message |-> "e2"],
    [isError |-> FALSE, message |-> "s"] }

\* error instanceof Error ? error : new Error(String(error))
AsError(error) ==
  IF error.isError THEN error
  ELSE [isError |-> TRUE, message |-> error.message]

undefined == [isError |-> FALSE, message |-> "undefined"]

Pending      == [state |-> "pending", value |-> "", reason |-> undefined]
Fulfilled(v) == [state |-> "fulfilled", value |-> v, reason |-> undefined]
Rejected(e)  == [state |-> "rejected", value |-> "", reason |-> e]

InitRetry ==
  /\ maxAttempts \in 0..MaxAttempts
  /\ delay \in Delays
  /\ attempt = 1
  /\ retryPc = "loop"
  /\ fnLog = <<>> /\ lastError = undefined /\ waits = <<>> /\ settled = <<>>
  /\ GenIdle /\ PageIdle /\ PipeIdle /\ RecIdle /\ DebounceIdle
  /\ MoreIdle

RetryOthers ==
  <<genVars, pageVars, pipeVars, recVars, debounceVars, moreVars>>

\* attempt <= maxAttempts; fn()
CallFn ==
  /\ retryPc = "loop" /\ attempt <= maxAttempts
  /\ fnLog' = Append(fnLog, Pending)
  /\ retryPc' = "await"
  /\ UNCHANGED <<maxAttempts, delay, attempt, lastError, waits, settled,
                 RetryOthers>>

\* return await fn(), the promise of fn being fulfilled
FnResolves ==
  /\ retryPc = "await"
  /\ \E v \in Values :
       /\ fnLog' = [fnLog EXCEPT ![Len(fnLog)] = Fulfilled(v)]
       /\ settled' = << Fulfilled(v) >>
  /\ retryPc' = "resolved"
  /\ UNCHANGED <<maxAttempts, delay, attempt, lastError, waits, RetryOthers>>

\* the catch clause that waits after every failed attempt, the last one
\* included
FnRejectsAlwaysWaits ==
  /\ retryPc = "await"
  /\ \E error \in Reasons :
       /\ fnLog' = [fnLog EXCEPT ![Len(fnLog)] = Rejected(error)]
       /\ lastError' = AsError(error)
       /\ waits' = Append(waits, delay * attempt)
       /\ retryPc' = "wait"
       /\ UNCHANGED settled
  /\ UNCHANGED <<maxAttempts, delay, attempt, RetryOthers>>

\* the catch clause, the promise of fn being rejected
FnRejects ==
  /\ retryPc = "await"
  /\ \E error \in Reasons :
       /\ fnLog' = [fnLog EXCEPT ![Len(fnLog)] = Rejected(error)]
       /\ lastError' = AsError(error)
       /\ IF attempt = maxAttempts
          THEN /\ settled' = << Rejected(lastError') >>
               /\ retryPc' = "rejected"
               /\ UNCHANGED waits
          ELSE /\ waits' = Append(waits, delay * attempt)
               /\ retryPc' = "wait"
               /\ UNCHANGED settled
  /\ UNCHANGED <<maxAttempts, delay, attempt, RetryOthers>>

\* the timeout of delay * attempt elapses; attempt++
WaitElapses ==
  /\ retryPc = "wait"
  /\ attempt' = attempt + 1
  /\ retryPc' = "loop"
  /\ UNCHANGED <<maxAttempts, delay, fnLog, lastError, waits, settled,
                 RetryOthers>>

\* the loop ends without a return or a throw; throw lastError!
LoopExit ==
  /\ retryPc = "loop" /\ ~(attempt <= maxAttempts)
  /\ settled' = << Rejected(lastError) >>
  /\ retryPc' = "rejected"
  /\ UNCHANGED <<maxAttempts, delay, attempt, fnLog, lastError, waits,
                 RetryOthers>>

NextRetry == CallFn \/ FnResolves \/ FnRejects \/ WaitElapses \/ LoopExit

SpecRetry == InitRetry /\ [][NextRetry]_vars

----------------------------------------------------------------------------
(* SpecDebounce: debounce(func, delay).  Time is counted in ticks.  Timers
   are taken to fire on time: the clock does not pass the due time of a
   pending timeout, and a callback that is due runs before the next call
   of the debounced function. *)

\* the greatest delay tried, in ticks
MaxDelay == 2

\* the clock's last tick
MaxTime == 6

\* the greatest number of calls of the debounced function
MaxCalls == 3

\* the argument lists the debounced function is called with
Arguments == {"a", "b"}

InitDebounce ==
  /\ debounceDelay \in 1..MaxDelay
  /\ now = 0
  /\ timers = {} /\ timeoutId = 0 /\ nextTimerId = 1
  /\ callLog = <<>> /\ funcLog = <<>>
  /\ GenIdle /\ PageIdle /\ PipeIdle /\ RecIdle /\ RetryIdle /\ MoreIdle

DebounceOthers ==
  <<genVars, pageVars, pipeVars, recVars, retryVars, moreVars>>

\* the pending timeouts whose delay has elapsed
Due == { timer \in timers : timer.due <= now }

\* the position of the next event in the order of calls and invocations
NextSeq == Len(callLog) + Len(funcLog) + 1

\* clearTimeout(id)
clearTimeout(id) == { timer \in timers : timer.id # id }

\* the returned function without its clearTimeout(timeoutId)
DebouncedCallNoClear ==
  /\ Len(callLog) < MaxCalls /\ Due = {}
  /\ \E args \in Arguments :
       /\ timers' = timers \cup
            { [id |-> nextTimerId, due |-> now + debounceDelay,
               args |-> args] }
       /\ callLog' = Append(callLog, [seq |-> NextSeq, time |-> now,
                                      args |-> args])
  /\ timeoutId' = nextTimerId
  /\ nextTimerId' = nextTimerId + 1
  /\ UNCHANGED <<debounceDelay, now, funcLog, DebounceOthers>>

\* the returned function: clearTimeout(timeoutId);
\* timeoutId = setTimeout(() => func(...args), delay)
DebouncedCall ==
  /\ Len(callLog) < MaxCalls /\ Due = {}
  /\ \E args \in Arguments :
       /\ timers' = clearTimeout(timeoutId) \cup
            { [id |-> nextTimerId, due |-> now + debounceDelay,
               args |-> args] }
       /\ callLog' = Append(callLog, [seq |-> NextSeq, time |-> now,
                                      args |-> args])
  /\ timeoutId' = nextTimerId
  /\ nextTimerId' = nextTimerId + 1
  /\ UNCHANGED <<debounceDelay, now, funcLog, DebounceOthers>>

\* the timeout's callback: () => func(...args)
TimeoutFires ==
  /\ \E timer \in Due :
       /\ timers' = timers \ {timer}
       /\ funcLog' = Append(funcLog, [seq |-> NextSeq, time |-> now,
                                      args |-> timer.args])
  /\ UNCHANGED <<debounceDelay, now, timeoutId, nextTimerId, callLog,
                 DebounceOthers>>

\* a tick of the clock
Tick ==
  /\ now < MaxTime /\ Due = {}
  /\ now' = now + 1
  /\ UNCHANGED <<debounceDelay, timers, timeoutId, nextTimerId, callLog,
                 funcLog, DebounceOthers>>

NextDebounce == DebouncedCall \/ TimeoutFires \/ Tick

SpecDebounce == InitDebounce /\ [][NextDebounce]_vars

----------------------------------------------------------------------------
(* SpecThrottle: throttle(func, limit).  Time is counted in ticks.  A
   timeout's callback runs at its due time or later: the clock may pass
   the due time of a pending timeout. *)

\* the greatest limit tried, in ticks
MaxLimit == 2

InitThrottle ==
  /\ limit \in 1..MaxLimit
  /\ inThrottle = FALSE
  /\ now = 0 /\ timers = {} /\ nextTimerId = 1
  /\ callLog = <<>> /\ funcLog = <<>>
  /\ debounceDelay = 0 /\ timeoutId = 0
  /\ GenIdle /\ PageIdle /\ PipeIdle /\ RecIdle /\ RetryIdle
  /\ LeafletIdle /\ VitalsIdle /\ MotionIdle /\ MouseIdle

ThrottleOthers ==
  <<genVars, pageVars, pipeVars, recVars, retryVars, debounceDelay,
    timeoutId, leafletVars, vitalsVars, motionVars, mouseVars>>

\* the returned function with inThrottle = true left out
ThrottledCallNoFlag ==
  /\ Len(callLog) < MaxCalls
  /\ \E args \in Arguments :
       /\ callLog' = Append(callLog, [seq |-> NextSeq, time |-> now,
                                      args |-> args])
       /\ IF ~inThrottle
          THEN /\ funcLog' = Append(funcLog, [seq |-> NextSeq + 1,
                                              time |-> now, args |-> args])
               /\ timers' = timers \cup
                    { [id |-> nextTimerId, due |-> now + limit,
                       args |-> args] }
               /\ nextTimerId' = nextTimerId + 1
               /\ UNCHANGED inThrottle
          ELSE UNCHANGED <<funcLog, inThrottle, timers, nextTimerId>>
  /\ UNCHANGED <<limit, now, ThrottleOthers>>

\* the returned function: if (!inThrottle) { func(...args);
\* inThrottle = true; setTimeout(() => inThrottle = false, limit) }
ThrottledCall ==
  /\ Len(callLog) < MaxCalls
  /\ \E args \in Arguments :
       /\ callLog' = Append(callLog, [seq |-> NextSeq, time |-> now,
                                      args |-> args])
       /\ IF ~inThrottle
          THEN /\ funcLog' = Append(funcLog, [seq |-> NextSeq + 1,
                                              time |-> now, args |-> args])
               /\ inThrottle' = TRUE
               /\ timers' = timers \cup
                    { [id |-> nextTimerId, due |-> now + limit,
                       args |-> args] }
               /\ nextTimerId' = nextTimerId + 1
          ELSE UNCHANGED <<funcLog, inThrottle, timers, nextTimerId>>
  /\ UNCHANGED <<limit, now, ThrottleOthers>>

\* the timeout's callback: () => inThrottle = false
WindowCloses ==
  /\ \E timer \in Due :
       /\ timers' = timers \ {timer}
       /\ inThrottle' = FALSE
  /\ UNCHANGED <<limit, now, nextTimerId, callLog, funcLog, ThrottleOthers>>

\* a tick of the clock
ClockTicks ==
  /\ now < MaxTime
  /\ now' = now + 1
  /\ UNCHANGED <<limit, inThrottle, timers, nextTimerId, callLog, funcLog,
                 ThrottleOthers>>

NextThrottle == ThrottledCall \/ WindowCloses \/ ClockTicks

SpecThrottle == InitThrottle /\ [][NextThrottle]_vars

----------------------------------------------------------------------------
(* SpecMap: the Map page with its LeafletMap component.  The page's
   handlers for the region filter, the tile style, the view mode and the
   selection, each followed by the render it causes and by the effects of
   LeafletMap that the render commits. *)

\* the flyTo calls and pending timeouts after which no further map is made
MaxFlyTo == 3

\* <LeafletMap .../> is rendered
Mounted(client, loaded, mode) ==
  client /\ loaded /\ mode \in {"map", "heatmap"}

Ids(arr) == { arr[k].id : k \in 1..Len(arr) }

\* the effects of LeafletMap committed after a render: mount, unmount, the
\* map effect on [mapStyle] with its cleanup, and the marker effect on
\* [factories, onMarkerClick, selectedFactory]
LeafletEffects ==
  LET was == Mounted(isClient, scriptsLoaded, viewMode)
      is == Mounted(isClient', scriptsLoaded', viewMode')
      \* filteredFactories is a new array whenever its memo recomputes
      markerDeps ==
        \/ <<searchTerm', selectedState', selectedIndustry', aqiRange',
             sortBy', pollutantFilter'>>
             # <<searchTerm, selectedState, selectedIndustry, aqiRange,
                 sortBy, pollutantFilter>>
        \/ selectedFactory' # selectedFactory
  IN
  CASE ~was /\ ~is ->
         UNCHANGED <<map, markers, mapLayers, initialized, flyTimers>>
    [] ~was /\ is ->
         /\ map' = selectedMap'
         /\ initialized' = FALSE
         /\ flyTimers' = 1
         /\ markers' = Ids(filteredFactories')
         /\ mapLayers' = Ids(filteredFactories')
    [] was /\ ~is ->
         /\ map' = "none" /\ markers' = {} /\ mapLayers' = {}
         /\ initialized' = FALSE /\ flyTimers' = 0
    [] was /\ is ->
         IF selectedMap' # selectedMap
         THEN /\ map' = selectedMap'
              /\ flyTimers' = flyTimers + (IF initialized THEN 0 ELSE 1)
              /\ markers' = IF markerDeps THEN Ids(filteredFactories') ELSE {}
              /\ mapLayers' = markers'
              /\ UNCHANGED initialized
         ELSE /\ markers' =
                   IF markerDeps THEN Ids(filteredFactories') ELSE markers
              /\ mapLayers' =
                   IF markerDeps THEN Ids(filteredFactories') ELSE mapLayers
              /\ UNCHANGED <<map, initialized, flyTimers>>

MapOthers ==
  <<genVars, pipeVars, recVars, retryVars, debounceVars, throttleVars,
    vitalsVars, motionVars, mouseVars>>

\* a state update of the page, its render and the effects it commits
PageUpdate(c, style, factory, mode, client, loaded) ==
  /\ searchTerm' = c.searchTerm
  /\ selectedState' = c.selectedState
  /\ selectedIndustry' = c.selectedIndustry
  /\ aqiRange' = c.aqiRange
  /\ sortBy' = c.sortBy
  /\ pollutantFilter' = c.pollutantFilter
  /\ selectedMap' = style /\ selectedFactory' = factory /\ viewMode' = mode
  /\ isClient' = client /\ scriptsLoaded' = loaded
  /\ Render(c, client)
  /\ download' = <<>>
  /\ LeafletEffects
  /\ UNCHANGED <<flyCount, MapOthers>>

\* a further map instance may be made
FlyBudget == flyCount + flyTimers < MaxFlyTo

InitMap ==
  /\ FACTORIES \in
       { generateFactories(rs) : rs \in SeqsOfLen(PageOutcomes, PageFactories) }
  /\ selectedMap = "dark" /\ selectedFactory = null
  /\ searchTerm = <<>> /\ selectedState = All /\ selectedIndustry = All
  /\ aqiRange = <<0, 500>> /\ viewMode = "map" /\ sortBy = "aqi"
  /\ pollutantFilter = "all" /\ isClient = FALSE
  /\ filteredFactories = filteredFactoriesMemo(FACTORIES, DefaultCriteria).value
  /\ stats = statsMemo(filteredFactories, FALSE)
  /\ download = <<>>
  /\ LeafletIdle
  /\ GenIdle /\ PipeIdle /\ RecIdle /\ RetryIdle /\ DebounceIdle
  /\ ThrottleIdle /\ VitalsIdle /\ MotionIdle /\ MouseIdle

\* useEffect(() => { setIsClient(true); ... }, [])
PageMounts ==
  /\ ~isClient
  /\ PageUpdate(currentCriteria, selectedMap, selectedFactory, viewMode,
                TRUE, scriptsLoaded)

\* script.onload: setTimeout(() => setScriptsLoaded(true), 300)
ScriptsLoad ==
  /\ isClient /\ ~scriptsLoaded /\ FlyBudget
  /\ PageUpdate(currentCriteria, selectedMap, selectedFactory, viewMode,
                isClient, TRUE)

\* onChange={(e) => setSelectedState(e.target.value)}
RegionChange ==
  /\ isClient
  /\ \E s \in {All} \cup stateOptions(FACTORIES) :
       PageUpdate([currentCriteria EXCEPT !.selectedState = s], selectedMap,
                  selectedFactory, viewMode, isClient, scriptsLoaded)

\* onClick={() => setSelectedMap(style)}
StyleSwitch ==
  /\ isClient /\ FlyBudget
  /\ \E style \in MapStyles :
       PageUpdate(currentCriteria, style, selectedFactory, viewMode,
                  isClient, scriptsLoaded)

\* onClick={() => setViewMode(mode as any)}
ViewSwitch ==
  /\ isClient /\ FlyBudget
  /\ \E mode \in ViewModes :
       PageUpdate(currentCriteria, selectedMap, selectedFactory, mode,
                  isClient, scriptsLoaded)

\* marker.on('click', ...): onMarkerClick(factory) and flyTo the facility
MarkerClicked ==
  /\ map # "none"
  /\ \E k \in 1..Len(FACTORIES) :
       /\ FACTORIES[k].id \in mapLayers
       /\ PageUpdate(currentCriteria, selectedMap, FACTORIES[k], viewMode,
                     isClient, scriptsLoaded)

\* a row of the list is clicked: setSelectedFactory(factory); setViewMode('map')
RowClicked ==
  /\ isClient /\ viewMode = "list" /\ FlyBudget
  /\ \E k \in 1..Len(filteredFactories) :
       PageUpdate(currentCriteria, selectedMap, filteredFactories[k], "map",
                  isClient, scriptsLoaded)

\* the detail popup is closed: setSelectedFactory(null)
DetailClosed ==
  /\ isClient /\ selectedFactory # null
  /\ PageUpdate(currentCriteria, selectedMap, null, viewMode, isClient,
                scriptsLoaded)

\* the 800 ms timeout of the map effect: if (map.current) { flyTo
\* Dehradun; setInitialized(true) }
FlyTimeout ==
  /\ flyTimers > 0
  /\ flyTimers' = flyTimers - 1
  /\ IF map # "none"
     THEN flyCount' = flyCount + 1 /\ initialized' = TRUE
     ELSE UNCHANGED <<flyCount, initialized>>
  /\ UNCHANGED <<scriptsLoaded, map, markers, mapLayers, pageVars, MapOthers>>

NextMap ==
  \/ PageMounts
  \/ ScriptsLoad
  \/ RegionChange
  \/ StyleSwitch
  \/ ViewSwitch
  \/ MarkerClicked
  \/ RowClicked
  \/ DetailClosed
  \/ FlyTimeout

SpecMap == InitMap /\ [][NextMap]_vars

----------------------------------------------------------------------------
(* SpecVitals: getWebVitals().  A metric is null (Null) or a measurement.
   The 5000 ms timeout runs before the 10000 ms one; an observer's callback
   runs at any moment while the observer observes, or never. *)

\* the greatest layout-shift score accumulated
MaxShift == 2

Null == 0 - 1

\* what a performance entry can measure
Measurements == {0, 7}

AllNull ==
  [ lcp |-> Null, fid |-> Null, cls |-> Null, fcp |-> Null, ttfb |-> Null ]

\* resolve(value) on a promise whose state is settledWith
resolve(settledWith, value) ==
  IF settledWith = <<>> THEN << value >> ELSE settledWith

\* checkComplete() having counted completed checks, the vitals being v
checkComplete(completed, settledWith, v) ==
  IF completed + 1 >= 5 THEN resolve(settledWith, v) ELSE settledWith

InitVitals ==
  /\ webClient \in BOOLEAN
  /\ vitals = AllNull /\ completedMetrics = 0
  /\ lcpObserver = "none" /\ fidObserver = "none" /\ clsObserver = "none"
  /\ clsScore = 0 /\ clsTimer = FALSE /\ fallbackTimer = FALSE
  /\ promise = <<>> /\ vitalsPc = "new"
  /\ GenIdle /\ PageIdle /\ PipeIdle /\ RecIdle /\ RetryIdle /\ DebounceIdle
  /\ ThrottleIdle /\ LeafletIdle /\ MotionIdle /\ MouseIdle

VitalsOthers ==
  <<genVars, pageVars, pipeVars, recVars, retryVars, debounceVars,
    throttleVars, leafletVars, motionVars, mouseVars>>

\* the executor on the server: resolve with five nulls and return
ExecutorOnServer ==
  /\ vitalsPc = "new" /\ ~webClient
  /\ promise' = resolve(promise, AllNull)
  /\ vitalsPc' = "server"
  /\ UNCHANGED <<webClient, vitals, completedMetrics, lcpObserver,
                 fidObserver, clsObserver, clsScore, clsTimer, fallbackTimer,
                 VitalsOthers>>

\* the executor on the client.  ttfb and fcp are what the navigation and
\* paint entries give (Null if there is none); lcpOk, fidOk and clsOk tell
\* whether the observer could be created and started; existing is what
\* the catch clause of the CLS block computes from the existing entries
ExecutorOnClient ==
  /\ vitalsPc = "new" /\ webClient
  /\ \E ttfb \in {Null} \cup Measurements, fcp \in {Null} \cup Measurements,
        lcpOk \in BOOLEAN, fidOk \in BOOLEAN, clsOk \in BOOLEAN,
        existing \in {Null} \cup Measurements :
       /\ vitals' = [ AllNull EXCEPT !.ttfb = ttfb, !.fcp = fcp,
                        !.cls = IF clsOk THEN Null ELSE existing ]
       /\ completedMetrics' =
            2 + (IF lcpOk THEN 0 ELSE 1) + (IF fidOk THEN 0 ELSE 1)
              + (IF clsOk THEN 0 ELSE 1)
       /\ lcpObserver' = IF lcpOk THEN "observing" ELSE "none"
       /\ fidObserver' = IF fidOk THEN "observing" ELSE "none"
       /\ clsObserver' = IF clsOk THEN "observing" ELSE "none"
       /\ clsTimer' = clsOk
       /\ promise' = IF completedMetrics' >= 5 THEN resolve(promise, vitals')
                     ELSE promise
  /\ fallbackTimer' = TRUE
  /\ vitalsPc' = "running"
  /\ UNCHANGED <<webClient, clsScore, VitalsOthers>>

\* the callback of lcpObserver: entry is the start time of the last entry
\* of the list, Null for an empty list
LcpObserved ==
  /\ lcpObserver = "observing"
  /\ \E entry \in {Null} \cup Measurements :
       vitals' = IF entry # Null THEN [vitals EXCEPT !.lcp = entry]
                 ELSE vitals
  /\ lcpObserver' = "disconnected"
  /\ completedMetrics' = completedMetrics + 1
  /\ promise' = checkComplete(completedMetrics, promise, vitals')
  /\ UNCHANGED <<webClient, fidObserver, clsObserver, clsScore, clsTimer,
                 fallbackTimer, vitalsPc, VitalsOthers>>

\* the callback of fidObserver
FidObserved ==
  /\ fidObserver = "observing"
  /\ \E entry \in {Null} \cup Measurements :
       vitals' = IF entry # Null THEN [vitals EXCEPT !.fid = entry]
                 ELSE vitals
  /\ fidObserver' = "disconnected"
  /\ completedMetrics' = completedMetrics + 1
  /\ promise' = checkComplete(completedMetrics, promise, vitals')
  /\ UNCHANGED <<webClient, lcpObserver, clsObserver, clsScore, clsTimer,
                 fallbackTimer, vitalsPc, VitalsOthers>>

\* the callback of clsObserver: clsScore += the values of the shifts
ClsObserved ==
  /\ clsObserver = "observing"
  /\ \E shift \in 0..(MaxShift - clsScore) :
       /\ clsScore' = clsScore + shift
       /\ vitals' = [vitals EXCEPT !.cls = clsScore']
  /\ UNCHANGED <<webClient, completedMetrics, lcpObserver, fidObserver,
                 clsObserver, clsTimer, fallbackTimer, promise, vitalsPc,
                 VitalsOthers>>

\* the 5000 ms timeout: disconnect clsObserver, keep the score, checkComplete
ClsTimeout ==
  /\ clsTimer
  /\ clsTimer' = FALSE
  /\ clsObserver' = "disconnected"
  /\ vitals' = [vitals EXCEPT !.cls = clsScore]
  /\ completedMetrics' = completedMetrics + 1
  /\ promise' = checkComplete(completedMetrics, promise, vitals')
  /\ UNCHANGED <<webClient, lcpObserver, fidObserver, clsScore, fallbackTimer,
                 vitalsPc, VitalsOthers>>

\* the 10000 ms timeout: resolve(vitals)
FallbackTimeout ==
  /\ fallbackTimer /\ ~clsTimer
  /\ fallbackTimer' = FALSE
  /\ promise' = resolve(promise, vitals)
  /\ UNCHANGED <<webClient, vitals, completedMetrics, lcpObserver,
                 fidObserver, clsObserver, clsScore, clsTimer, vitalsPc,
                 VitalsOthers>>

NextVitals ==
  \/ ExecutorOnServer
  \/ ExecutorOnClient
  \/ LcpObserved
  \/ FidObserved
  \/ ClsObserved
  \/ ClsTimeout
  \/ FallbackTimeout

SpecVitals == InitVitals /\ [][NextVitals]_vars

\* timeouts run; an observer's callback need not
FairSpecVitals ==
  /\ SpecVitals
  /\ WF_vars(ExecutorOnServer) /\ WF_vars(ExecutorOnClient)
  /\ WF_vars(ClsTimeout) /\ WF_vars(FallbackTimeout)

----------------------------------------------------------------------------
(* SpecMotion: the effect of useMotionPreferences and its cleanup.  A
   function is known by its name and by the render or effect run that
   created it: handlePreferenceChange is the same function until the
   dependencies of its useCallback change, legacyHandler is created anew by
   every run of the effect. *)

\* the greatest number of runs of the effect
MaxEffectRuns == 3

\* the greatest number of changes of the onPreferenceChange option
MaxHandlers == 2

handlePreferenceChange(gen) == [ name |-> "handlePreferenceChange", gen |-> gen ]

legacyHandler(run) == [ name |-> "legacyHandler", gen |-> run ]

InitMotion ==
  /\ mqSupported \in BOOLEAN /\ mqModern \in BOOLEAN
  /\ mqMatches \in BOOLEAN /\ prefers \in BOOLEAN
  /\ handlerGen = 1
  /\ motionPc = "unmounted"
  /\ listeners = {} /\ effectRuns = 0
  /\ lastDeps = <<>> /\ closure = <<>>
  /\ GenIdle /\ PageIdle /\ PipeIdle /\ RecIdle /\ RetryIdle /\ DebounceIdle
  /\ ThrottleIdle /\ LeafletIdle /\ VitalsIdle /\ MouseIdle

MotionOthers ==
  <<genVars, pageVars, pipeVars, recVars, retryVars, debounceVars,
    throttleVars, leafletVars, vitalsVars, mouseVars>>

\* the listeners left by the cleanup of the last run: the function it
\* removes is handlePreferenceChange on both paths
AfterCleanup ==
  IF closure # <<>> THEN listeners \ { closure[1] } ELSE listeners

\* the body of the effect, run on the listeners before
RunEffect(before) ==
  /\ effectRuns' = effectRuns + 1
  /\ lastDeps' = << handlerGen, prefers >>
  /\ IF ~mqSupported
     THEN /\ listeners' = before
          /\ closure' = <<>>
          /\ prefers' = prefers
     ELSE /\ listeners' = before \cup
               { IF mqModern THEN handlePreferenceChange(handlerGen)
                 ELSE legacyHandler(effectRuns') }
          /\ closure' = << handlePreferenceChange(handlerGen),
                           legacyHandler(effectRuns') >>
          /\ prefers' = mqMatches

\* the component mounts: the effect runs for the first time
MotionMount ==
  /\ motionPc = "unmounted"
  /\ motionPc' = "mounted"
  /\ RunEffect(listeners)
  /\ UNCHANGED <<mqSupported, mqModern, mqMatches, handlerGen, MotionOthers>>

\* a dependency of the effect changed: its cleanup runs, then the effect
MotionRerun ==
  /\ motionPc = "mounted" /\ effectRuns < MaxEffectRuns
  /\ lastDeps # << handlerGen, prefers >>
  /\ RunEffect(AfterCleanup)
  /\ UNCHANGED <<mqSupported, mqModern, mqMatches, handlerGen, motionPc,
                 MotionOthers>>

\* the system preference changes: the attached listeners are called and
\* handlePreferenceChange sets the preference
SystemPreferenceChange ==
  /\ motionPc # "unmounted"
  /\ mqMatches' = ~mqMatches
  /\ prefers' = IF listeners # {} /\ motionPc = "mounted" THEN mqMatches'
                ELSE prefers
  /\ UNCHANGED <<mqSupported, mqModern, handlerGen, motionPc, listeners,
                 effectRuns, lastDeps, closure, MotionOthers>>

\* the onPreferenceChange option changes: useCallback returns a new
\* handlePreferenceChange
OptionChange ==
  /\ motionPc = "mounted" /\ handlerGen < MaxHandlers
  /\ handlerGen' = handlerGen + 1
  /\ UNCHANGED <<mqSupported, mqModern, mqMatches, prefers, motionPc,
                 listeners, effectRuns, lastDeps, closure, MotionOthers>>

\* the component unmounts: the cleanup of the last run
MotionUnmount ==
  /\ motionPc = "mounted"
  /\ motionPc' = "gone"
  /\ listeners' = AfterCleanup
  /\ closure' = <<>>
  /\ UNCHANGED <<mqSupported, mqModern, mqMatches, prefers, handlerGen,
                 effectRuns, lastDeps, MotionOthers>>

NextMotion ==
  \/ MotionMount
  \/ MotionRerun
  \/ SystemPreferenceChange
  \/ OptionChange
  \/ MotionUnmount

SpecMotion == InitMotion /\ [][NextMotion]_vars

----------------------------------------------------------------------------
(* SpecMouse: useMousePosition.  Coordinates are fixed-point numbers of
   MouseScale units to the pixel (or to the normalized unit); a frame
   halves a distance, so MouseScale = 2^MaxFrames keeps every value of a
   run of MaxFrames frames exact.  The smoothing option is 0 or 1/2. *)

\* the greatest number of animation frames
MaxFrames == 4

MouseScale == 2 ^ MaxFrames

\* window.innerWidth and window.innerHeight, in pixels
InnerSize == 2

\* clientX and clientY of the events, in pixels
ClientCoords == 0 .. InnerSize

\* the throttle option, in ticks of the clock
ThrottleTicks == 1

\* a limit that the bounds option leaves out
NoLimit == 0 - 1000

\* the bounds option: none, a box around the origin, a box away from it
BoundsOptions ==
  { <<>>,
    [ minX |-> 0, maxX |-> MouseScale, minY |-> 0, maxY |-> MouseScale ],
    [ minX |-> MouseScale, maxX |-> 2 * MouseScale,
      minY |-> MouseScale, maxY |-> NoLimit ] }

Abs(n) == IF n < 0 THEN 0 - n ELSE n

Max2(a, b) == IF a > b THEN a ELSE b

Min2(a, b) == IF a < b THEN a ELSE b

processCoordinates(clientX, clientY) ==
  LET nx == IF mouseConfig.normalize
            THEN ((clientX * MouseScale) \div InnerSize) * 2 - MouseScale
            ELSE clientX * MouseScale
      ny == IF mouseConfig.normalize
            THEN (0 - ((clientY * MouseScale) \div InnerSize)) * 2 + MouseScale
            ELSE clientY * MouseScale
      b  == mouseConfig.bounds
      x1 == IF b # <<>> /\ b.minX # NoLimit THEN Max2(nx, b.minX) ELSE nx
      x2 == IF b # <<>> /\ b.maxX # NoLimit THEN Min2(x1, b.maxX) ELSE x1
      y1 == IF b # <<>> /\ b.minY # NoLimit THEN Max2(ny, b.minY) ELSE ny
      y2 == IF b # <<>> /\ b.maxY # NoLimit THEN Min2(y1, b.maxY) ELSE y1
  IN  [ mouseX |-> x2, mouseY |-> y2 ]

\* |delta| > threshold, the threshold being 0.001 normalized and 0.5 not
Significant(delta) ==
  IF mouseConfig.normalize THEN delta # 0
  ELSE 2 * Abs(delta) > MouseScale

InitMouse ==
  /\ mouseConfig \in [ normalize : BOOLEAN, smoothing : {0, 1},
                       bounds : BoundsOptions ]
  /\ mouseState = [ x |-> 0, y |-> 0, targetX |-> 0, targetY |-> 0,
                    isActive |-> FALSE ]
  /\ sinceUpdate = ThrottleTicks
  /\ smoothingRaf = FALSE
  /\ mousePosition = [ mouseX |-> 0, mouseY |-> 0 ]
  /\ reported = FALSE
  /\ frames = 0
  /\ GenIdle /\ PageIdle /\ PipeIdle /\ RecIdle /\ RetryIdle /\ DebounceIdle
  /\ ThrottleIdle /\ LeafletIdle /\ VitalsIdle /\ MotionIdle

MouseOthers ==
  <<genVars, pageVars, pipeVars, recVars, retryVars, debounceVars,
    throttleVars, leafletVars, vitalsVars, motionVars>>

\* an animation frame
smoothUpdate ==
  /\ smoothingRaf /\ frames < MaxFrames
  /\ frames' = frames + 1
  /\ IF ~mouseState.isActive
     THEN /\ smoothingRaf' = FALSE
          /\ UNCHANGED <<mouseState, mousePosition, reported>>
     ELSE LET deltaX == mouseState.targetX - mouseState.x
              deltaY == mouseState.targetY - mouseState.y
              moved  == Significant(deltaX) \/ Significant(deltaY)
          IN  /\ mouseState' =
                   [ mouseState EXCEPT
                       !.x = @ + (deltaX * mouseConfig.smoothing) \div 2,
                       !.y = @ + (deltaY * mouseConfig.smoothing) \div 2 ]
              /\ IF moved
                 THEN /\ mousePosition' = [ mouseX |-> mouseState'.x,
                                            mouseY |-> mouseState'.y ]
                      /\ reported' = TRUE
                 ELSE UNCHANGED <<mousePosition, reported>>
              /\ smoothingRaf' = moved
  /\ UNCHANGED <<mouseConfig, sinceUpdate, MouseOthers>>

\* a mousemove, touchmove or touchstart event
handlePointerMove ==
  \E clientX \in ClientCoords, clientY \in ClientCoords :
    IF sinceUpdate < ThrottleTicks
    THEN UNCHANGED vars
    ELSE LET processed == processCoordinates(clientX, clientY)
         IN  /\ sinceUpdate' = 0
             /\ IF ~smoothingRaf /\ mouseConfig.smoothing > 0
                THEN /\ smoothingRaf' = TRUE
                     /\ mouseState' =
                          [ mouseState EXCEPT
                              !.isActive = TRUE,
                              !.targetX = processed.mouseX,
                              !.targetY = processed.mouseY ]
                     /\ UNCHANGED <<mousePosition, reported>>
                ELSE IF mouseConfig.smoothing = 0
                THEN /\ mouseState' =
                          [ x |-> processed.mouseX, y |-> processed.mouseY,
                            targetX |-> processed.mouseX,
                            targetY |-> processed.mouseY,
                            isActive |-> TRUE ]
                     /\ mousePosition' = processed
                     /\ reported' = TRUE
                     /\ UNCHANGED smoothingRaf
                ELSE /\ mouseState' =
                          [ mouseState EXCEPT
                              !.isActive = TRUE,
                              !.targetX = processed.mouseX,
                              !.targetY = processed.mouseY ]
                     /\ UNCHANGED <<smoothingRaf, mousePosition, reported>>
             /\ UNCHANGED <<mouseConfig, frames, MouseOthers>>

\* a mouseleave, touchend or touchcancel event
handlePointerLeave ==
  /\ mouseState.isActive
  /\ mouseState' = [ mouseState EXCEPT !.isActive = FALSE ]
  /\ smoothingRaf' = FALSE
  /\ UNCHANGED <<mouseConfig, sinceUpdate, mousePosition, reported, frames,
                 MouseOthers>>

\* the clock advances towards the end of the throttle window
MouseClockTicks ==
  /\ sinceUpdate < ThrottleTicks
  /\ sinceUpdate' = sinceUpdate + 1
  /\ UNCHANGED <<mouseConfig, mouseState, smoothingRaf, mousePosition,
                 reported, frames, MouseOthers>>

NextMouse ==
  \/ smoothUpdate
  \/ handlePointerMove
  \/ handlePointerLeave
  \/ MouseClockTicks

SpecMouse == InitMouse /\ [][NextMouse]_vars

----------------------------------------------------------------------------
(* Properties of the pollutant filter (SpecPipeline) *)

PollutantNames == PollutantChoices \ {"all"}

\* C11: for every generated dataset, every pollutant choice and every
\* setting of the other criteria, the view equals the view computed with
\* pollutant 'all' and the other criteria unchanged, every pollutant value
\* of every record being greater than zero.
C11_PollutantFilterNoOp ==
  /\ \A k \in 1..Len(dataset) :
       \A p \in PollutantNames : dataset[k].pollution[p] > 0
  /\ Applied =>
       view = filteredFactoriesMemo(
                dataset, [criteria EXCEPT !.pollutantFilter = "all"]).value

C11_Witness ==
  /\ phase = "applied" /\ criteria.pollutantFilter = "nox"
  /\ criteria.selectedState # All
  /\ Len(view) >= 1 /\ Len(view) < Len(dataset)

----------------------------------------------------------------------------
(* Properties of a generated record (SpecRecord) *)

\* the numeric fields of a record other than its id
NumericFields(f) ==
  { f.pollution[k] : k \in DOMAIN f.pollution }
  \cup { f.particleComposition[k] : k \in DOMAIN f.particleComposition }
  \cup { f.emissionSources[k] : k \in DOMAIN f.emissionSources }
  \cup { f.seasonalVariation[k] : k \in DOMAIN f.seasonalVariation }
  \cup { f.complianceScore, f.violations, f.healthImpactRadius,
         f.populationAffected }

\* C12: every generated record has PM2.5 >= 0 and PM10 >= 0, and none of
\* its numeric fields (pollutants, particle composition, emission sources,
\* compliance, violations, radius, population, seasonal multipliers) is
\* negative, whatever the random source returns in [0, 1).
C12_NonNegative ==
  Generated =>
    /\ record.pollution.pm25 >= 0 /\ record.pollution.pm10 >= 0
    /\ \A x \in NumericFields(record) : x >= 0

C12_Witness ==
  /\ Generated /\ record.complianceScore = 0 /\ record.violations = 0
  /\ record.pollution.co = 200

\* the values PM2.5 takes over the base AQI values and the outcomes
PM25Values ==
  { PM25(baseAQI, k) : baseAQI \in 50..499, k \in 0..(RandDenom - 1) }

\* C13 as stated: PM10 >= PM2.5 is not an invariant of the generator, some
\* outcome of the random source gives a record with PM10 < PM2.5.
C13_PM10BelowPM25Possible ==
  Generated =>
    \E pm25 \in PM25Values :
      \E k \in 0..(RandDenom - 1) : PM10(pm25, k) < pm25

\* C13: PM10 >= PM2.5 holds for every generated record; PM2.5 is at least
\* 20 and PM10 = floor(1.8 * PM2.5 + noise) exceeds it by at least 16.
C13_PM10AtLeastPM25 ==
  Generated =>
    /\ record.pollution.pm25 >= 20
    /\ record.pollution.pm10 >= record.pollution.pm25 + 16

C13_Witness ==
  /\ Generated /\ record.pollution.pm25 = 20 /\ record.pollution.pm10 = 36

\* C14: the integer attributes lie in half-open ranges: AQI in [50, 500),
\* complianceScore in [0, 100), violations in [0, 15), populationAffected
\* in [10000, 110000), CO2 in [400, 1200), NOx in [30, 180), SO2 in
\* [40, 240), O3 in [20, 140).
C14_IntegerRanges ==
  Generated =>
    /\ record.pollution.aqi \in 50..499
    /\ record.complianceScore \in 0..99
    /\ record.violations \in 0..14
    /\ record.populationAffected \in 10000..109999
    /\ record.pollution.co2 \in 400..1199
    /\ record.pollution.nox \in 30..179
    /\ record.pollution.so2 \in 40..239
    /\ record.pollution.o3 \in 20..139

C14_Witness ==
  /\ Generated /\ record.pollution.aqi = 499 /\ record.complianceScore = 99
  /\ record.violations = 14 /\ record.pollution.co2 = 1199
  /\ record.pollution.nox = 179 /\ record.pollution.so2 = 239
  /\ record.pollution.o3 = 139 /\ record.populationAffected > 109000

\* C15 as stated: healthImpactRadius, after rounding to one decimal, is at
\* least 2.0 and strictly below 10.0 (in tenths: 20 <= radius < 100).
C15_RadiusBelowTen ==
  Generated =>
    record.healthImpactRadius >= 20 /\ record.healthImpactRadius < 100

\* C15: healthImpactRadius, after rounding to one decimal, lies in the
\* closed range [2.0, 10.0]; outcomes from 0.99375 on round up to 10.0.
C15_RadiusRange ==
  Generated =>
    /\ record.healthImpactRadius >= 20 /\ record.healthImpactRadius <= 100
    /\ (record.healthImpactRadius = 100 <=>
          160 * outcomes.healthImpactRadius >= 159 * RandDenom)

C15_Witness == Generated /\ record.healthImpactRadius = 100

\* C16: controlMeasures holds at least 2 and at most 6 items, pairwise
\* distinct, every one from the catalog of 8 control measures.
C16_ControlMeasures ==
  Generated =>
    LET cm == record.controlMeasures
    IN /\ Len(cm) >= 2 /\ Len(cm) <= 6
       /\ \A a, b \in 1..Len(cm) : a # b => cm[a] # cm[b]
       /\ \A a \in 1..Len(cm) :
            \E c \in 1..Len(controlMeasures) : cm[a] = controlMeasures[c]
       /\ Len(controlMeasures) = 8

C16_Witness ==
  /\ Generated /\ Len(record.controlMeasures) = 6
  /\ outcomes.controlMeasures < RandDenom - 1

----------------------------------------------------------------------------
(* Properties of the export (Spec) *)

Exported == download # <<>>

\* C17: the export writes the current filtered view and nothing else: the
\* file's text is valid JSON and parses to one array that holds exactly
\* the records of the view, in the view's order, deep-equal to them.
C17_ExportRoundTrip ==
  Exported =>
    /\ JSONparse(download[1]) # SyntaxError
    /\ JSONparse(download[1]) = FactoryArray(filteredFactories)
    /\ JSONparse(download[1]).type = "array"
    /\ Len(JSONparse(download[1]).items) = Len(filteredFactories)

C17_Witness ==
  /\ Exported /\ selectedIndustry # All
  /\ Len(filteredFactories) >= 1 /\ Len(filteredFactories) < Len(FACTORIES)

\* C18 as stated: in every reachable state of the Map page the stats equal
\* the summary of the current filtered view; in no state is the view
\* non-empty while the stats are all zero.
C18_StatsFollowViewAlways ==
  /\ stats = summarize(filteredFactories)
  /\ filteredFactories # <<>> => stats # NoStats

\* C18: in every reachable state of the Map page in which isClient is set
\* (from the mount effect on) the stats equal the summary of the current
\* filtered view, and are not all zero when the view is non-empty; before
\* that, while the loading screen is shown, the stats are all zero
\* whatever the view holds.
C18_StatsFollowView ==
  /\ isClient =>
       /\ stats = summarize(filteredFactories)
       /\ filteredFactories # <<>> => stats # NoStats
  /\ ~isClient => stats = NoStats /\ filteredFactories # <<>>

C18_Witness ==
  /\ isClient /\ selectedState # All
  /\ filteredFactories # <<>>
  /\ stats = summarize(filteredFactories)
  /\ stats # summarize(FACTORIES)

----------------------------------------------------------------------------
(* Properties of withRetry (SpecRetry) *)

FailedAttempts == { n \in 1..Len(fnLog) : fnLog[n].state = "rejected" }

\* C19: for maxAttempts >= 1, withRetry invokes fn sequentially and at most
\* maxAttempts times, never again after a success; it resolves with the
\* value of the first success, rejects with the error of the last attempt
\* exactly when all maxAttempts attempts fail, and schedules no wait after
\* the final failed attempt (the waits are delay * 1, delay * 2, ...).
C19_WithRetry ==
  (retryPc # "idle" /\ maxAttempts >= 1) =>
    /\ Len(fnLog) <= maxAttempts
    /\ \A n \in 1..(Len(fnLog) - 1) : fnLog[n].state = "rejected"
    /\ (fnLog # <<>> /\ fnLog[Len(fnLog)].state = "pending")
         <=> retryPc = "await"
    /\ retryPc = "resolved" <=>
         (fnLog # <<>> /\ fnLog[Len(fnLog)].state = "fulfilled")
    /\ retryPc = "resolved" => settled = << fnLog[Len(fnLog)] >>
    /\ retryPc = "rejected" <=>
         (Len(fnLog) = maxAttempts /\ FailedAttempts = 1..maxAttempts)
    /\ retryPc = "rejected" =>
         settled = << Rejected(AsError(fnLog[maxAttempts].reason)) >>
    /\ retryPc \notin {"resolved", "rejected"} => settled = <<>>
    /\ Len(waits) = (IF retryPc = "rejected" THEN maxAttempts - 1
                     ELSE Cardinality(FailedAttempts))
    /\ \A n \in 1..Len(waits) : waits[n] = delay * n

C19_Witness ==
  /\ retryPc = "rejected" /\ maxAttempts = MaxAttempts /\ delay = 250
  /\ waits = [n \in 1..(MaxAttempts - 1) |-> 250 * n]
  /\ fnLog[MaxAttempts].reason.message = "e2"

----------------------------------------------------------------------------
(* Properties of debounce (SpecDebounce) *)

\* the calls made before the n-th invocation of func
CallsBefore(n) ==
  { c \in 1..Len(callLog) : callLog[c].seq < funcLog[n].seq }

\* the most recent of a non-empty set of calls
Latest(calls) == CHOOSE c \in calls : \A other \in calls : other <= c

\* the invocations of func after call c and before the call that follows
InvocationsAfter(c) ==
  { n \in 1..Len(funcLog) :
      /\ funcLog[n].seq > callLog[c].seq
      /\ c < Len(callLog) => funcLog[n].seq < callLog[c + 1].seq }

\* call c is the last of its burst: no call follows it less than delay
\* later
EndsBurst(c) ==
  IF c < Len(callLog)
  THEN callLog[c + 1].time - callLog[c].time >= debounceDelay
  ELSE now - callLog[c].time >= debounceDelay /\ Due = {}

----------------------------------------------------------------------------
(* Properties of throttle (SpecThrottle) *)

\* the invocations of func made by call c, within the call
InvokedBy(c) ==
  { n \in 1..Len(funcLog) : funcLog[n].seq = callLog[c].seq + 1 }

\* the invocations of func made before call c
InvokedBefore(c) ==
  { n \in 1..Len(funcLog) : funcLog[n].seq < callLog[c].seq }

----------------------------------------------------------------------------
(* Properties of the map (SpecMap) *)

\* C22: whenever the Leaflet map instance exists, the markers on the map
\* and the marker registry correspond one-to-one to the records of the
\* current filtered view, also after the tile style was switched and the
\* map recreated.
C22_MarkersMatchView ==
  map # "none" =>
    /\ mapLayers = Ids(filteredFactories)
    /\ markers = Ids(filteredFactories)

\* C23: flyTo to Dehradun is called at most once per page session.
C23_FlyToOnce == flyCount <= 1

----------------------------------------------------------------------------
(* Properties of the dashboard and of Clear All Filters *)

\* C24: for every criteria, every sort key included, the panel "Top 10
\* Most Polluted Facilities" lists the (up to) 10 records of the filtered
\* view with the highest AQI, in non-increasing AQI order.
C24_TopTenByAQI ==
  Applied =>
    LET top == topPolluted(view) IN
    /\ Len(top) = (IF Len(view) < 10 THEN Len(view) ELSE 10)
    /\ \A k \in 1..(Len(top) - 1) :
         top[k].pollution.aqi >= top[k + 1].pollution.aqi
    /\ \A k \in 1..Len(top) : \A n \in (Len(top) + 1)..Len(view) :
         top[k].pollution.aqi >= view[n].pollution.aqi

\* C25: a click on Clear All Filters sets the search text, the region, the
\* industry, the pollutant focus, the AQI range and the sort key to '',
\* 'All', 'All', 'all', [0, 500] and 'aqi'; the filtered view then holds
\* every record of the dataset, in non-increasing AQI order; the selected
\* facility, the view mode and the map style are as before the click.
C25_ClearAllFilters ==
  [][ ClearAllFilters =>
        /\ searchTerm' = <<>> /\ selectedState' = All
        /\ selectedIndustry' = All /\ pollutantFilter' = "all"
        /\ aqiRange' = <<0, 500>> /\ sortBy' = "aqi"
        /\ Len(filteredFactories') = Len(FACTORIES')
        /\ \A k \in 1..Len(FACTORIES') :
             Occurrences(filteredFactories', FACTORIES'[k])
               = Occurrences(FACTORIES', FACTORIES'[k])
        /\ \A k \in 1..(Len(filteredFactories') - 1) :
             filteredFactories'[k].pollution.aqi
               >= filteredFactories'[k + 1].pollution.aqi
        /\ selectedFactory' = selectedFactory
        /\ viewMode' = viewMode
        /\ selectedMap' = selectedMap ]_vars

C25_Witness ==
  /\ isClient /\ currentCriteria = DefaultCriteria /\ download = <<>>
  /\ Len(filteredFactories) = Len(FACTORIES)
  /\ filteredFactories # FACTORIES
  /\ selectedFactory # null /\ viewMode = "list"
  /\ selectedMap = "satellite"

----------------------------------------------------------------------------
(* Properties of getWebVitals (SpecVitals) *)

\* C26 (termination): the promise returned by getWebVitals is eventually
\* resolved, on the server with five nulls, on the client by the fifth
\* completed check or by the fallback timeout, whether or not the LCP and
\* first-input observers ever fire.
C26_EventuallyResolves ==
  /\ <>(promise # <<>>)
  /\ [](vitalsPc = "server" => promise = << AllNull >>)
  /\ []((promise # <<>> /\ vitalsPc = "running") =>
          (completedMetrics >= 5 \/ ~fallbackTimer))

\* C26: the value the promise is resolved with is fixed by the first
\* resolution: what a holder of the result reads (the object vitals, on
\* the client) is what it was when the promise was resolved.
C26_ResolvedValueFixed ==
  (promise # <<>> /\ vitalsPc = "running") => vitals = promise[1]

----------------------------------------------------------------------------
(* Properties of useMotionPreferences (SpecMotion) *)

\* C27: after the hook unmounts no change listener it registered is
\* attached to the media query, and after its effect has run again only
\* the listener of the latest run is, on the addEventListener path and on
\* the legacy addListener path alike.
C27_NoListenerLeft ==
  /\ motionPc = "gone" => listeners = {}
  /\ motionPc = "mounted" =>
       /\ Cardinality(listeners) <= 1
       /\ \A fn \in listeners : fn \in { closure[1], closure[2] }

----------------------------------------------------------------------------
(* Properties of useMousePosition (SpecMouse) *)

\* C28: with bounds configured, every position the hook reports after a
\* pointer event lies within them, minX <= mouseX <= maxX and
\* minY <= mouseY <= maxY, whatever the pointer events and animation
\* frames, with smoothing or without.
C28_PositionWithinBounds ==
  (reported /\ mouseConfig.bounds # <<>>) =>
    LET b == mouseConfig.bounds
    IN  /\ b.minX # NoLimit => b.minX <= mousePosition.mouseX
        /\ b.maxX # NoLimit => mousePosition.mouseX <= b.maxX
        /\ b.minY # NoLimit => b.minY <= mousePosition.mouseY
        /\ b.maxY # NoLimit => mousePosition.mouseY <= b.maxY

====
